---- MODULE Spec2Model ----
(***************************************************************************)
(* Model of the maelstrom instance lifecycle manager (api/v1), the machine *)
(* compiler (registry/statechart) and the runtime primitive they consume.  *)
(***************************************************************************)
EXTENDS Integers, Sequences, FiniteSets, TLC

(***************************************************************************)
(* Bounds of the model.                                                    *)
(***************************************************************************)
NProcs == 2
MaxInst == 2
MaxReq == 3
MaxRestarts == 1
MaxFaults == 1

Procs == 1..NProcs
Iids == 1..MaxInst

(***************************************************************************)
(* JSON values that travel through requests and files.  A value is a       *)
(* record [t, flag]; t is the JSON type, flag the value of the key "flag"  *)
(* of an object ("absent" when the object has no such key).                *)
(***************************************************************************)
JNull == [t |-> "null", flag |-> "-"]
JOne == [t |-> "num", flag |-> "-"]
JMap(f) == [t |-> "map", flag |-> f]
JInvalid == [t |-> "invalid", flag |-> "-"]

\* encoding/json.Marshal of a decoded value
Marshal(v) ==
  CASE v.t = "null" -> "null"
    [] v.t = "num" -> "1"
    [] v.t = "map" /\ v.flag = "absent" -> "{}"
    [] v.t = "map" /\ v.flag = "true" -> "{\"flag\":true}"
    [] v.t = "map" /\ v.flag = "false" -> "{\"flag\":false}"
    [] OTHER -> "null"

\* encoding/json.Unmarshal into an `any`; JInvalid stands for a returned error
Unmarshal(s) ==
  CASE s = "null" -> JNull
    [] s = "1" -> JOne
    [] s = "{}" -> JMap("absent")
    [] s = "{\"flag\":true}" -> JMap("true")
    [] s = "{\"flag\":false}" -> JMap("false")
    [] OTHER -> JInvalid

InitialContexts == {JNull, JMap("true")}
EventDatas == {JNull, JOne}
\* what the LLM primitive may return for one call: an error or a response text
LLMReplies == {"error", "{\"flag\":true}", "{\"flag\":false}"}

Digit(c) ==
  CASE c = "0" -> 0 [] c = "1" -> 1 [] c = "2" -> 2 [] c = "3" -> 3
    [] c = "4" -> 4 [] c = "5" -> 5 [] c = "6" -> 6 [] c = "7" -> 7
    [] c = "8" -> 8 [] c = "9" -> 9 [] OTHER -> -1
IsDigits(s) == Len(s) > 0 /\ \A i \in 1..Len(s) : Digit(s[i]) >= 0
\* time.ParseDuration(st.Timeout) succeeds: "0", or decimal digits and one of
\* the units s, m, h
ParseDuration(t) ==
  \/ t = <<"0">>
  \/ /\ Len(t) >= 2 /\ t[Len(t)] \in {"s", "m", "h"}
     /\ IsDigits(SubSeq(t, 1, Len(t) - 1))

(***************************************************************************)
(* YAML machine specs.  States is the recursive state tree flattened: a    *)
(* node is keyed by its path below the root.  A transition target is the   *)
(* dotted string split at its dots.                                        *)
(***************************************************************************)
YamlTransition(target, guard, action) ==
  [Target |-> target, Guard |-> guard, Action |-> action]
YamlState(initial, on) == [Initial |-> initial, On |-> on, Timeout |-> <<>>]
\* a state with `timeout:`, the string as a tuple of characters
YamlTimed(initial, on, timeout) == [Initial |-> initial, On |-> on, Timeout |-> timeout]
NoOn == [e \in {} |-> YamlTransition(<<>>, "", "")]

\* e2e_tests.sh test_statecharts: {green -(next)-> red}
TrafficLight ==
  [ID |-> "root", Initial |-> "green", Provider |-> "",
   States |-> (<<"green">> :> YamlState("", [next |-> YamlTransition(<<"red">>, "", "")])
            @@ <<"red">> :> YamlState("", NoOn))]

\* e2e_tests.sh test_nested_compound, where child2 is itself compound and
\* names no initial child
Nested ==
  [ID |-> "root", Initial |-> "parent", Provider |-> "",
   States |-> (<<"parent">> :> YamlState("child1", NoOn)
            @@ <<"parent", "child1">> :>
                 YamlState("", [next |-> YamlTransition(<<"child2">>, "", "")])
            @@ <<"parent", "child2">> :> YamlState("", NoOn)
            @@ <<"parent", "child2", "a">> :> YamlState("", NoOn)
            @@ <<"parent", "child2", "b">> :> YamlState("", NoOn))]

\* TestToMachine_Errors: the initial state is not declared
Broken ==
  [ID |-> "root", Initial |-> "missing", Provider |-> "",
   States |-> (<<"green">> :> YamlState("", NoOn))]

\* a machine whose first transition runs an LLM action that patches the
\* context and whose second transition is guarded by that context
Gated ==
  [ID |-> "root", Initial |-> "idle", Provider |-> "openai",
   States |-> (<<"idle">> :> YamlState("", [go |-> YamlTransition(<<"busy">>, "", "decide")])
            @@ <<"busy">> :> YamlState("", [next |-> YamlTransition(<<"done">>, "ctx.flag", "")])
            @@ <<"done">> :> YamlState("", NoOn))]

\* TestToMachine_Errors "missing states": `machine: {id: root}`
Empty == [ID |-> "root", Initial |-> "", Provider |-> "", States |-> <<>>]

\* TestToMachine_SimpleTrafficLight: three states, each with a transition on
\* the one event timer
SimpleTrafficLight ==
  [ID |-> "root", Initial |-> "green", Provider |-> "",
   States |-> (<<"green">> :> YamlState("", [timer |-> YamlTransition(<<"yellow">>, "", "")])
            @@ <<"yellow">> :> YamlState("", [timer |-> YamlTransition(<<"red">>, "", "")])
            @@ <<"red">> :> YamlState("", [timer |-> YamlTransition(<<"green">>, "", "")]))]

\* README, machine YAML: `timeout: duration (optional, e.g. "30s")`
Timed ==
  [ID |-> "root", Initial |-> "waiting", Provider |-> "",
   States |-> (<<"waiting">> :>
                 YamlTimed("", [done |-> YamlTransition(<<"finished">>, "", "")],
                           <<"3", "0", "s">>)
            @@ <<"finished">> :> YamlState("", NoOn))]
\* TestToMachine_Errors "invalid timeout"
BadTimeout ==
  [ID |-> "root", Initial |-> "foo", Provider |-> "",
   States |-> (<<"foo">> :>
                 YamlTimed("", NoOn, <<"i", "n", "v", "a", "l", "i", "d">>))]
\* a nested state whose timeout has no unit
BadNested ==
  [ID |-> "root", Initial |-> "parent", Provider |-> "",
   States |-> (<<"parent">> :> YamlState("child", NoOn)
            @@ <<"parent", "child">> :>
                 YamlTimed("", NoOn, <<"3", "0">>))]

MachineNames == {"trafficlight", "nested", "gated", "broken", "empty"}
SpecOf(name) ==
  CASE name = "trafficlight" -> TrafficLight
    [] name = "simple" -> SimpleTrafficLight
    [] name = "timed" -> Timed
    [] name = "badtimeout" -> BadTimeout
    [] name = "badnested" -> BadNested
    [] name = "nested" -> Nested
    [] name = "broken" -> Broken
    [] name = "empty" -> Empty
    [] OTHER -> Gated

(***************************************************************************)
(* Machine compiler: YamlMachineSpec.ToAugmentedMachine.                   *)
(***************************************************************************)
Children(s, p) ==
  {q \in DOMAIN s.States : Len(q) = Len(p) + 1 /\ SubSeq(q, 1, Len(p)) = p}
ChildNames(s, p) == {q[Len(q)] : q \in Children(s, p)}
\* states that take the `for childID := range st.States` default
Defaulted(s) ==
  {p \in DOMAIN s.States : Children(s, p) # {} /\ s.States[p].Initial = ""}

NoAug == [Spec |-> "", Pick |-> <<>>]
\* the compiler without its check of the initial state
CompileUnchecked(name) ==
  LET s == SpecOf(name) IN
  {[Spec |-> name, Pick |-> f] :
     f \in {g \in [Defaulted(s) -> UNION {ChildNames(s, p) : p \in Defaulted(s)}] :
              \A p \in Defaulted(s) : g[p] \in ChildNames(s, p)}}
\* the compiler without its check of the timeouts
CompileUntimed(name) ==
  LET s == SpecOf(name) IN
  IF <<s.Initial>> \notin DOMAIN s.States THEN {NoAug} ELSE CompileUnchecked(name)
\* Every result one compilation of the spec can give: an error (NoAug) when
\* the initial state is undeclared, else one machine per outcome of the map
\* iterations that pick the default child of a compound state.
ToAugmentedMachine(name) ==
  LET s == SpecOf(name) IN
  IF <<s.Initial>> \notin DOMAIN s.States
    THEN {NoAug}
    ELSE IF \E p \in DOMAIN s.States :
              s.States[p].Timeout # <<>> /\ ~ParseDuration(s.States[p].Timeout)
    THEN {NoAug}
    ELSE {[Spec |-> name, Pick |-> f] :
            f \in {g \in [Defaulted(s) -> UNION {ChildNames(s, p) : p \in Defaulted(s)}] :
                     \A p \in Defaulted(s) : g[p] \in ChildNames(s, p)}}

FullPath(s, p) == <<s.ID>> \o p
initialFullpath(s) == <<s.ID, s.Initial>>
\* declareRecursive: the paths recorded in statesSeen
statesSeen(s) ==
  {<<s.ID>>} \cup {FullPath(s, p) : p \in DOMAIN s.States} \cup {initialFullpath(s)}
\* declareRecursive: sb.Compound(fullpath + "." + childInitial)
childInitial(aug, p) ==
  LET s == SpecOf(aug.Spec) IN
  p \o <<IF s.States[p].Initial = "" THEN aug.Pick[p] ELSE s.States[p].Initial>>
\* a variant of targetFull without its first rule: a target that starts with the root id is prefixed like any
\* other dotted target
targetFullNoPass(s, prefix, fullpath, target) ==
  IF Len(target) > 1
    THEN <<s.ID>> \o target
    ELSE IF prefix # <<>> /\ target # fullpath
      THEN prefix \o target
      ELSE target

\* configureRecursive: the absolute path of a transition target; prefix is
\* the full path of the parent of the state at fullpath
targetFull(s, prefix, fullpath, target) ==
  IF Len(target) > 1 /\ target[1] = s.ID
    THEN target
    ELSE IF Len(target) > 1
      THEN <<s.ID>> \o target
      ELSE IF prefix # <<>> /\ target # fullpath
        THEN prefix \o target
        ELSE target
\* configureRecursive: eventsSeen, the keys of EventIDByName
eventsSeen(s) == UNION {DOMAIN s.States[p].On : p \in DOMAIN s.States}
EventIDByName(aug) == eventsSeen(SpecOf(aug.Spec))
\* the event types a client sends: the machine's own and an unknown one
EventTypes(name) == eventsSeen(SpecOf(name)) \cup {"bogus"}

(***************************************************************************)
(* Guard and action closures bound into the machine.                       *)
(***************************************************************************)
\* resolveGuard: "" gives no guard; an inline expression over ctx returns a
\* boolean result as is and treats a non-boolean result (a missing key) as
\* false
resolveGuard(guard, flag) ==
  IF guard = "" THEN TRUE ELSE flag = "true"

\* statechartx Context.LoadAll: shallow merge of a map into the context
LoadAll(flag, m) ==
  IF m.t = "map" /\ m.flag # "absent" THEN m.flag ELSE flag

\* resolveAction: nil for no action, a logging no-op when no provider is
\* configured, else one LLM call whose JSON object reply is merged into the
\* context; a call error or an unparsable reply leaves the context alone
resolveAction(s, action, flag, reply) ==
  IF action = "" \/ s.Provider = "" \/ reply = "error"
    THEN flag
    ELSE LoadAll(flag, Unmarshal(reply))
\* the transitions whose action calls the LLM
CallsLLM(s, action) == action # "" /\ s.Provider # ""

(***************************************************************************)
(* Runtime primitive: NewRuntime, Start, ProcessEvent, GetCurrentState.    *)
(* A runtime is [aug, cur, flag, n, stopped]: the machine it executes, the *)
(* current state path, the context, the number of events it processed.     *)
(***************************************************************************)
NoRt == [aug |-> NoAug, cur |-> <<>>, flag |-> "-", n |-> 0, stopped |-> FALSE]

RECURSIVE Descend(_, _)
\* entering a compound state enters its initial child
Descend(aug, p) ==
  IF Children(SpecOf(aug.Spec), p) = {} THEN p ELSE Descend(aug, childInitial(aug, p))

\* context of a new runtime: NewContext, then LoadAll when the initial
\* context is a JSON object
NewContext(initial) == LoadAll("absent", initial)

StartRuntime(aug, initial) ==
  [aug |-> aug, cur |-> Descend(aug, <<SpecOf(aug.Spec).Initial>>),
   flag |-> NewContext(initial), n |-> 0, stopped |-> FALSE]

RECURSIVE SourceOf(_, _, _)
\* the innermost state, from the current one outwards, with a transition on evt
SourceOf(s, p, evt) ==
  IF p = <<>> THEN <<>>
  ELSE IF evt \in DOMAIN s.States[p].On THEN p
  ELSE SourceOf(s, SubSeq(p, 1, Len(p) - 1), evt)

\* ProcessEvent: guard, then action, then the move to the target
ProcessEvent(rt, evt, reply) ==
  LET s == SpecOf(rt.aug.Spec)
      src == SourceOf(s, rt.cur, evt)
  IN IF src = <<>> THEN [rt EXCEPT !.n = @ + 1]
     ELSE LET tr == s.States[src].On[evt]
              prefix == <<s.ID>> \o SubSeq(src, 1, Len(src) - 1)
              tgt == targetFull(s, prefix, FullPath(s, src), tr.Target)
          IN IF ~resolveGuard(tr.Guard, rt.flag) THEN [rt EXCEPT !.n = @ + 1]
             ELSE [rt EXCEPT !.cur = Descend(rt.aug, Tail(tgt)),
                             !.flag = resolveAction(s, tr.Action, rt.flag, reply),
                             !.n = @ + 1]
\* whether processing evt in rt calls the LLM
NeedsReply(rt, evt) ==
  LET s == SpecOf(rt.aug.Spec)
      src == SourceOf(s, rt.cur, evt)
  IN src # <<>> /\ resolveGuard(s.States[src].On[evt].Guard, rt.flag)
       /\ CallsLLM(s, s.States[src].On[evt].Action)
RepliesFor(rt, evt) == IF NeedsReply(rt, evt) THEN LLMReplies ELSE {"error"}

\* aug.StatePathByID[rt.GetCurrentState()]
Current(rt) == FullPath(SpecOf(rt.aug.Spec), rt.cur)

(***************************************************************************)
(* State of one server process and of its disk.                            *)
(***************************************************************************)
VARIABLES
  machine,          \* the statechart YAML the registry holds
  files,            \* instances/<mid>/<iid>.json, per instance id
  tmps,             \* instances/<mid>/.<iid>.json.tmp, per instance id
  instances,        \* sync.Map machineID -> map of instance id to runtime
  nextInstanceID,   \* the id counter
  instanceMutexes,  \* sync.Map key -> mutex, 0 when the key has none
  held,             \* the mutexes that are locked
  augCache,         \* sync.Map machineID -> compiled machine
  req,              \* the request each goroutine is handling
  resp,             \* the last response each goroutine wrote
  shadow,           \* per instance, the runtime of a process that never restarts
  delivered,        \* per instance, the deliveries of a known event type that ended
                    \* without an injected failure since the instance was created
  allocated,        \* the ids createInstance has allocated, oldest first, in
                    \* every process since the instances directory was empty
  nreq, nrestart, nfault

\* the variables of the instance lifecycle manager
instanceVars ==
  <<allocated, machine, files, tmps, instances, nextInstanceID, instanceMutexes, held,
    augCache, req, resp, shadow, delivered, nreq, nrestart, nfault>>

(***************************************************************************)
(* State of the tool registry, of one running llm_with_tools action and of *)
(* the config resolver.                                                    *)
(***************************************************************************)
VARIABLES
  now,              \* time.Now(), in seconds
  rateLimiters,     \* ToolRegistry.rateLimiters: key (tool, limit) -> limiter
  policies,         \* the tool policies in force (the machine's tool_policies)
  execLog,          \* the calls of ToolRegistry.Execute so far, with their outcome
  loop,             \* the llm_with_tools action that is running
  acquiring,        \* per caller: the rate-limit check of EnforcePolicies it is in
  appcfg,           \* the AppConfig the resolver was built with
  heap,             \* the values that pointers point to, by address
  environ,          \* the process environment
  resolved          \* the records Resolve has returned, oldest first

toolVars == <<now, rateLimiters, policies, execLog, loop, acquiring>>
cfgVars == <<appcfg, heap, environ, resolved>>

(***************************************************************************)
(* State of the agent registry (registry.Registry).                        *)
(***************************************************************************)
VARIABLES
  Machines,         \* Registry.Machines: the ids of the hired agents
  NumAgents,        \* Registry.NumAgents
  AgentsDir,        \* Registry.AgentsDir, "" when not set
  mu,               \* Registry.mu: the caller that holds it, 0 for none
  uuids,            \* the number of ids uuid.New has given out
  call              \* per caller: the HireAgent or RetireAgent call it is in

agentVars == <<Machines, NumAgents, AgentsDir, mu, uuids, call>>

(***************************************************************************)
(* A call of one of the compiler's functions on its own: what it is given  *)
(* and what it returned.                                                   *)
(***************************************************************************)
VARIABLES
  arg,              \* the arguments of the call
  result            \* what the call returned, <<>> before it returns

evalVars == <<arg, result>>
vars == <<instanceVars, toolVars, cfgVars, agentVars, evalVars>>

\* a file is absent ("none"), complete ("full") or cut short ("partial")
NoFile == [kind |-> "none", Initial |-> "", History |-> <<>>]
Partial == [kind |-> "partial", Initial |-> "", History |-> <<>>]
InstanceState(initial, history) ==
  [kind |-> "full", Initial |-> initial, History |-> history]
EventLog(typ, data) == [Type |-> typ, Data |-> data]

NoInstances == [kind |-> "none", m |-> [i \in Iids |-> NoRt]]
\* what the replay of a request's rebuild did: the transitions whose guard
\* and action it ran and the LLM calls of those actions
NoReplay == [ran |-> 0, calls |-> 0]
Idle ==
  [pc |-> "idle", op |-> "", iid |-> 0, typ |-> "", data |-> JNull, ictx |-> JNull,
   mu |-> 0, st |-> NoFile, aug |-> NoAug, rt |-> NoRt, alias |-> FALSE,
   replay |-> NoReplay]
NoResp == [op |-> "", iid |-> 0, code |-> "", typ |-> "", current |-> <<>>, history |-> 0]
Resp(r, code, current, history) ==
  [op |-> r.op, iid |-> r.iid, code |-> code, typ |-> r.typ,
   current |-> current, history |-> history]
\* Response codes: "ok" 200, "bad request" 400, "not found" 404, "error" 500,
\* and "panic" for a handler that panicked (the deferred Unlock runs and the
\* Recoverer middleware answers 500).

(***************************************************************************)
(* Tool registry (internal/tools): strings are tuples of characters.       *)
(***************************************************************************)
\* time.Minute, in seconds
Minute == 60
\* the step of the clock and its last value
TickSeconds == 30
MaxClock == 90
\* the largest N of a rate_limit policy, the most calls of Execute
MaxRate == 2
MaxExec == 4

\* the tools ToolRegistry.Init registers (two of the ten) and a name it
\* does not register
Registered == {"bash_exec", "parse_xml"}
ToolNames == Registered \cup {"nope"}
\* ToolRegistry.Get
Get(toolName) == IF toolName \in Registered THEN toolName ELSE ""

\* strings.Contains
Contains(str, sub) ==
  \E i \in 1..(Len(str) + 1) :
    i + Len(sub) - 1 <= Len(str) /\ SubSeq(str, i, i + Len(sub) - 1) = sub
RECURSIVE TrimLeft(_)
TrimLeft(str) ==
  IF str # <<>> /\ Head(str) = " " THEN TrimLeft(Tail(str)) ELSE str
RECURSIVE UpToSpace(_)
UpToSpace(str) ==
  IF str = <<>> \/ Head(str) = " " THEN <<>> ELSE <<Head(str)>> \o UpToSpace(Tail(str))
\* strings.Fields(cmdStr)[0], <<>> when there is no field
FirstField(str) == UpToSpace(TrimLeft(str))

\* a JSON value of a params object: absent, a string or a number
NoValue == [t |-> "absent", s |-> <<>>]
StringValue(str) == [t |-> "string", s |-> str]
NumberValue == [t |-> "number", s |-> <<>>]
Params(command, xml) == [command |-> command, xml |-> xml]
NoParams == Params(NoValue, NoValue)

CmdLs == <<"l", "s">>
CmdRm == <<"r", "m", " ", "x">>
CmdLsRm == <<"l", "s", " ", "r", "m">>
CmdBlank == <<" ">>
\* the calls a client of the registry makes
Calls ==
  {[tool |-> "bash_exec", params |-> Params(c, NoValue)] :
     c \in {StringValue(CmdLs), StringValue(CmdRm), StringValue(CmdLsRm),
            StringValue(CmdBlank), NoValue}}
  \cup {[tool |-> "parse_xml", params |-> Params(NoValue, x)] :
          x \in {StringValue(<<"<", ">">>), NumberValue}}
  \cup {[tool |-> "nope", params |-> NoParams]}

\* a policy string, split at its first colon into key and value; a
\* rate_limit value is the text before its suffix, read as a number, and the
\* suffix; an allowed or forbidden value is its comma-separated parts
Policy(key, n, suffix, parts) == [key |-> key, n |-> n, suffix |-> suffix, parts |-> parts]
RateLimit(n, suffix) == Policy("rate_limit", n, suffix, <<>>)
Allowed(parts) == Policy("allowed", 0, "", parts)
Forbidden(parts) == Policy("forbidden", 0, "", parts)
\* a policy without a colon: strings.Index gives idx <= 0
NoColon == Policy("", 0, "", <<>>)
PolicySets ==
  {<<>>,
   <<RateLimit(2, "/min")>>,
   <<RateLimit(1, "/min"), Allowed(<<CmdLs>>), Forbidden(<<<<"r", "m">>>>)>>,
   <<Forbidden(<<<<"r", "m">>>>)>>,
   <<NoColon, RateLimit(2, "/hour"), Allowed(<<CmdLs, <<"r", "m">>>>)>>}

\* rateLimiter{limit, windowStart, count}; limit 0 stands for no limiter
NoLimiter == [limit |-> 0, windowStart |-> 0, count |-> 0]
RateKeys == Registered \X (1..MaxRate)
NoLimiters == [k \in RateKeys |-> NoLimiter]

\* the llm_with_tools action that is not running
NoRun == [tool |-> "", params |-> NoParams]
NoLoop ==
  [pc |-> "idle", maxIter |-> 0, configured |-> 0, hasTools |-> FALSE, iter |-> 0,
   calls |-> 0, tools |-> 0, msgs |-> <<>>, patched |-> FALSE, ret |-> "",
   allToolUse |-> TRUE, lastRun |-> NoRun, lastKind |-> "", toolNames |-> <<>>]

\* no caller is in a rate-limit check
NoAcquire == [pc |-> "idle", tool |-> "", limit |-> 0]
ToolsIdle ==
  /\ now = 0 /\ rateLimiters = NoLimiters /\ policies = <<>>
  /\ execLog = <<>> /\ loop = NoLoop
  /\ acquiring = [p \in Procs |-> NoAcquire]

(***************************************************************************)
(* Config resolver (config): a pointer is an address of the heap, 0 is nil *)
(***************************************************************************)
NoAppConfig ==
  [DefaultModel |-> <<>>, DefaultProvider |-> <<>>, DefaultAPIKey |-> <<>>,
   DefaultBaseURL |-> 0, DefaultTemperature |-> 0, DefaultMaxTokens |-> 0]
ConfigIdle ==
  /\ appcfg = NoAppConfig /\ heap = <<>>
  /\ environ = <<>> /\ resolved = <<>>

\* no function is called on its own
EvalIdle == arg = <<>> /\ result = <<>>

\* no HireAgent or RetireAgent call is running
NoCall == [pc |-> "idle", op |-> "", arg |-> "", ret |-> "", id |-> 0]
AgentsIdle ==
  /\ Machines = {} /\ NumAgents = 0 /\ AgentsDir = "" /\ mu = 0 /\ uuids = 0
  /\ call = [p \in Procs |-> NoCall]

\* the instance lifecycle manager before its first request
InstancesIdle ==
  /\ files = [i \in Iids |-> NoFile]
  /\ tmps = [i \in Iids |-> NoFile]
  /\ instances = NoInstances
  /\ nextInstanceID = 0
  /\ instanceMutexes = [i \in Iids |-> 0]
  /\ held = {}
  /\ augCache = NoAug
  /\ req = [p \in Procs |-> Idle]
  /\ resp = [p \in Procs |-> NoResp]
  /\ shadow = [i \in Iids |-> NoRt]
  /\ delivered = [i \in Iids |-> 0]
  /\ allocated = <<>>
  /\ nreq = 0 /\ nrestart = 0 /\ nfault = 0

Init ==
  /\ machine \in MachineNames
  /\ InstancesIdle
  /\ ToolsIdle
  /\ ConfigIdle
  /\ AgentsIdle /\ EvalIdle

\* an I/O or start failure the environment may inject
Fault == nfault < MaxFaults /\ nfault' = nfault + 1
NoFault == nfault' = nfault

\* getInstanceMutex, a mutant: Store a new mutex on every call
StoreMutex(m, key) == [m EXCEPT ![key] = @ + 1]
\* getInstanceMutex: instanceMutexes.LoadOrStore(key, new(sync.Mutex))
getInstanceMutex(m, key) == IF m[key] = 0 THEN [m EXCEPT ![key] = 1] ELSE m

\* the handler ends with an error response; the deferred Unlock is pending
Fail(p, code) ==
  /\ resp' = [resp EXCEPT ![p] = Resp(req[p], code, <<>>, 0)]
  /\ req' = [req EXCEPT ![p].pc = "unlock"]

(***************************************************************************)
(* createInstance                                                          *)
(***************************************************************************)
\* decode the body, getAugmentedMachine: augCache.Load
BeginCreate(p) ==
  /\ req[p].pc = "idle" /\ nreq < MaxReq
  /\ \E ictx \in InitialContexts :
       req' = [req EXCEPT ![p] =
                 [Idle EXCEPT !.op = "create", !.ictx = ictx, !.aug = augCache,
                              !.pc = IF augCache.Spec = "" THEN "cList" ELSE "cAlloc"]]
  /\ nreq' = nreq + 1
  /\ UNCHANGED <<toolVars, cfgVars, agentVars, evalVars, allocated, machine, files, tmps, instances, nextInstanceID, instanceMutexes,
                 held, augCache, resp, shadow, nrestart, nfault, delivered>>

\* getAugmentedMachine on a cache miss: Registry.List compiles the spec
\* again, the result is stored in augCache
AugList(p) ==
  /\ req[p].pc \in {"cList", "sList"}
  /\ \E aug \in ToAugmentedMachine(machine) :
       IF aug.Spec = ""
         THEN /\ resp' = [resp EXCEPT ![p] = Resp(req[p], "not found", <<>>, 0)]
              /\ req' = [req EXCEPT ![p].pc = IF req[p].pc = "cList" THEN "return"
                                                                     ELSE "unlock"]
              /\ UNCHANGED augCache
         ELSE /\ augCache' = aug
              /\ req' = [req EXCEPT ![p].aug = aug,
                                    ![p].pc = IF req[p].pc = "cList" THEN "cAlloc" ELSE "sFind"]
              /\ UNCHANGED resp
  /\ UNCHANGED <<toolVars, cfgVars, agentVars, evalVars, allocated, machine, files, tmps, instances, nextInstanceID, instanceMutexes,
                 held, shadow, nreq, nrestart, nfault, delivered>>

\* atomic.AddInt64: the new value
AddInt64(v, d) == v + d

\* atomic.AddInt64(&nextInstanceID, 1), getInstanceMutex, the state to save
CreateAlloc(p) ==
  /\ req[p].pc = "cAlloc" /\ nextInstanceID < MaxInst
  /\ nextInstanceID' = AddInt64(nextInstanceID, 1)
  /\ allocated' = Append(allocated, nextInstanceID')
  /\ instanceMutexes' = getInstanceMutex(instanceMutexes, nextInstanceID')
  /\ req' = [req EXCEPT ![p].iid = nextInstanceID',
                        ![p].mu = instanceMutexes'[nextInstanceID'],
                        ![p].st = InstanceState(Marshal(req[p].ictx), <<>>),
                        ![p].pc = "cLock"]
  /\ UNCHANGED <<toolVars, cfgVars, agentVars, evalVars, machine, files, tmps, instances, held, augCache, resp, shadow,
                 nreq, nrestart, nfault, delivered>>

\* mu.Lock()
Lock(p) ==
  /\ req[p].pc \in {"cLock", "sLock", "dLock"}
  /\ <<req[p].iid, req[p].mu>> \notin held
  /\ held' = held \cup {<<req[p].iid, req[p].mu>>}
  /\ req' = [req EXCEPT ![p].pc = CASE req[p].pc = "cLock" -> "cWrite"
                                    [] req[p].pc = "sLock" -> "sLoad"
                                    [] OTHER -> "dRemove"]
  /\ UNCHANGED <<toolVars, cfgVars, agentVars, evalVars, allocated, machine, files, tmps, instances, nextInstanceID, instanceMutexes,
                 augCache, resp, shadow, nreq, nrestart, nfault, delivered>>

\* the handler returns; the deferred mu.Unlock() runs when the lock was taken
Unlock(p) ==
  /\ req[p].pc \in {"unlock", "return"}
  /\ held' = IF req[p].pc = "unlock" THEN held \ {<<req[p].iid, req[p].mu>>} ELSE held
  /\ req' = [req EXCEPT ![p] = Idle]
  /\ resp' = [resp EXCEPT ![p] = NoResp]
  /\ UNCHANGED <<toolVars, cfgVars, agentVars, evalVars, allocated, machine, files, tmps, instances, nextInstanceID, instanceMutexes,
                 augCache, shadow, nreq, nrestart, nfault, delivered>>

(***************************************************************************)
(* saveInstanceState, in its two file-system steps.                        *)
(***************************************************************************)
\* a mutant: write the data straight to the destination path
WriteInPlace(f, t, iid, st, ok) ==
  [files |-> [f EXCEPT ![iid] = IF ok THEN st ELSE Partial], tmps |-> t]
\* os.WriteFile(tmp, data): a failed write may leave a truncated temp file
WriteTmp(f, t, iid, st, ok) ==
  [files |-> f, tmps |-> [t EXCEPT ![iid] = IF ok THEN st ELSE Partial]]

\* os.Rename(tmp, path), and os.Remove(tmp) when it fails
Rename(f, t, iid, ok) ==
  IF ok THEN [files |-> [f EXCEPT ![iid] = t[iid]], tmps |-> [t EXCEPT ![iid] = NoFile]]
        ELSE [files |-> f, tmps |-> [t EXCEPT ![iid] = NoFile]]

\* MkdirAll, MarshalIndent, WriteFile of the temp file
SaveWrite(p) ==
  /\ req[p].pc \in {"cWrite", "sWrite"}
  /\ \/ /\ NoFault
        /\ LET d == WriteTmp(files, tmps, req[p].iid, req[p].st, TRUE) IN
             files' = d.files /\ tmps' = d.tmps
        /\ req' = [req EXCEPT ![p].pc = IF req[p].pc = "cWrite" THEN "cRename" ELSE "sRename"]
        /\ UNCHANGED resp
     \/ /\ Fault
        /\ LET d == WriteTmp(files, tmps, req[p].iid, req[p].st, FALSE) IN
             files' = d.files /\ tmps' = d.tmps
        /\ Fail(p, "error")
  /\ UNCHANGED <<toolVars, cfgVars, agentVars, evalVars, allocated, machine, instances, nextInstanceID, instanceMutexes, held, augCache,
                 shadow, nreq, nrestart, delivered>>

\* the response of a successful sendEvent
SendEventResp(r) == Resp(r, "ok", Current(r.rt), Len(r.st.History))

\* Rename of the temp file over the destination; sendEvent then answers
SaveRename(p) ==
  /\ req[p].pc \in {"cRename", "sRename"}
  /\ \/ /\ NoFault
        /\ LET d == Rename(files, tmps, req[p].iid, TRUE) IN
             files' = d.files /\ tmps' = d.tmps
        /\ IF req[p].pc = "cRename"
             THEN /\ req' = [req EXCEPT ![p].pc = "cStart"]
                  /\ delivered' = [delivered EXCEPT ![req[p].iid] = 0]
                  /\ UNCHANGED resp
             ELSE /\ req' = [req EXCEPT ![p].pc = "unlock"]
                  /\ delivered' = [delivered EXCEPT ![req[p].iid] = @ + 1]
                  /\ resp' = [resp EXCEPT ![p] = SendEventResp(req[p])]
     \/ /\ Fault
        /\ LET d == Rename(files, tmps, req[p].iid, FALSE) IN
             files' = d.files /\ tmps' = d.tmps
        /\ Fail(p, "error")
        /\ UNCHANGED delivered
  /\ UNCHANGED <<toolVars, cfgVars, agentVars, evalVars, allocated, machine, instances, nextInstanceID, instanceMutexes, held, augCache,
                 shadow, nreq, nrestart>>

\* a mutant: report the configured initial state of the machine
RespInitialFullpath(r, rt) == Resp(r, "ok", initialFullpath(SpecOf(rt.aug.Spec)), 0)
\* the response of a successful createInstance
CreateInstanceResp(r, rt) == Resp(r, "ok", Current(rt), 0)

\* NewRuntime, Start, then instances.LoadOrStore(mid, new(sync.Map)) and
\* midMap.Store(iid, rt); the assertion v.(*sync.Map) panics on a plain map
CreateStart(p) ==
  /\ req[p].pc = "cStart"
  /\ \/ /\ Fault
        /\ Fail(p, "error")
        /\ UNCHANGED <<instances, shadow>>
     \/ /\ NoFault
        /\ LET rt == StartRuntime(req[p].aug, req[p].ictx) IN
           IF instances.kind = "plain"
             THEN /\ Fail(p, "panic")
                  /\ UNCHANGED <<instances, shadow>>
             ELSE /\ instances' = [kind |-> "sync",
                                   m |-> [instances.m EXCEPT ![req[p].iid] = rt]]
                  /\ shadow' = [shadow EXCEPT ![req[p].iid] = rt]
                  /\ resp' = [resp EXCEPT ![p] = CreateInstanceResp(req[p], rt)]
                  /\ req' = [req EXCEPT ![p].pc = "unlock", ![p].rt = rt]
  /\ UNCHANGED <<toolVars, cfgVars, agentVars, evalVars, allocated, machine, files, tmps, nextInstanceID, instanceMutexes, held, augCache,
                 nreq, nrestart, delivered>>

(***************************************************************************)
(* sendEvent                                                               *)
(***************************************************************************)
\* the count of ended deliveries after the delivery of p ended
Ended(p) ==
  IF req[p].typ \in eventsSeen(SpecOf(machine))
    THEN [delivered EXCEPT ![req[p].iid] = @ + 1]
    ELSE delivered

\* decode the body, getInstanceMutex
BeginSend(p) ==
  /\ req[p].pc = "idle" /\ nreq < MaxReq
  /\ \E iid \in Iids, typ \in EventTypes(machine), data \in EventDatas :
       /\ instanceMutexes' = getInstanceMutex(instanceMutexes, iid)
       /\ req' = [req EXCEPT ![p] =
                    [Idle EXCEPT !.op = "send", !.iid = iid, !.typ = typ, !.data = data,
                                 !.mu = instanceMutexes'[iid], !.pc = "sLock"]]
  /\ nreq' = nreq + 1
  /\ UNCHANGED <<toolVars, cfgVars, agentVars, evalVars, allocated, machine, files, tmps, instances, nextInstanceID, held, augCache,
                 resp, shadow, nrestart, nfault, delivered>>

\* loadInstanceState, then getAugmentedMachine: augCache.Load
SendLoad(p) ==
  /\ req[p].pc = "sLoad"
  /\ \/ /\ Fault
        /\ Fail(p, "error")
     \/ /\ NoFault
        /\ IF files[req[p].iid].kind = "none" THEN Fail(p, "not found")
           ELSE IF files[req[p].iid].kind = "partial" THEN Fail(p, "error")
           ELSE /\ req' = [req EXCEPT ![p].st = files[req[p].iid], ![p].aug = augCache,
                                      ![p].pc = IF augCache.Spec = "" THEN "sList" ELSE "sFind"]
                /\ UNCHANGED resp
  /\ UNCHANGED <<toolVars, cfgVars, agentVars, evalVars, allocated, machine, files, tmps, instances, nextInstanceID, instanceMutexes, held,
                 augCache, shadow, nreq, nrestart, delivered>>

\* "Try reuse in-memory runtime": instances.Load(mid), the assertion
\* v.(*sync.Map), which panics on a plain map, and midMap.Load(iid)
SendFind(p) ==
  /\ req[p].pc = "sFind"
  /\ IF instances.kind = "plain" THEN Fail(p, "panic") /\ delivered' = Ended(p)
     ELSE /\ UNCHANGED delivered
          /\ req' = [req EXCEPT ![p].rt = instances.m[req[p].iid],
                                ![p].alias = instances.m[req[p].iid].cur # <<>>,
                                ![p].pc = IF instances.m[req[p].iid].cur = <<>>
                                            THEN "sRebuild" ELSE "sCheck"]
          /\ UNCHANGED resp
  /\ UNCHANGED <<toolVars, cfgVars, agentVars, evalVars, allocated, machine, files, tmps, instances, nextInstanceID, instanceMutexes, held,
                 augCache, shadow, nreq, nrestart, nfault>>

RECURSIVE Replay(_, _, _)
\* the runtimes a replay of the logged events can leave, NoRt for a replay
\* that returned an error; every logged event is processed again, its guard
\* and action included
Replay(rts, aug, history) ==
  IF history = <<>> THEN rts
  ELSE LET log == Head(history) IN
       Replay(UNION {IF rt.cur = <<>> \/ log.Type \notin EventIDByName(aug)
                           \/ Unmarshal(log.Data) = JInvalid
                       THEN {NoRt}
                       ELSE {ProcessEvent(rt, log.Type, reply) :
                               reply \in RepliesFor(rt, log.Type)} : rt \in rts},
              aug, Tail(history))
replayRuntime(rt, aug, history) == Replay({rt}, aug, history)

\* the runtimes the rebuild of sendEvent can produce from a persisted state
Rebuild(aug, st) ==
  LET initialData == IF Unmarshal(st.Initial) = JInvalid THEN JMap("absent")
                     ELSE Unmarshal(st.Initial)
  IN replayRuntime(StartRuntime(aug, initialData), aug, st.History)

RECURSIVE ReplayEffects(_, _, _)
\* replayRuntime with the guards and actions it runs: each outcome is the
\* runtime with the count of transitions run and of LLM calls made
ReplayEffects(outs, aug, history) ==
  IF history = <<>> THEN outs
  ELSE LET log == Head(history) IN
       ReplayEffects(
         UNION {IF o.rt.cur = <<>> \/ log.Type \notin EventIDByName(aug)
                     \/ Unmarshal(log.Data) = JInvalid
                  THEN {[o EXCEPT !.rt = NoRt]}
                  ELSE {[rt |-> ProcessEvent(o.rt, log.Type, reply),
                         ran |-> o.ran +
                           (IF SourceOf(SpecOf(o.rt.aug.Spec), o.rt.cur, log.Type) # <<>>
                              THEN 1 ELSE 0),
                         calls |-> o.calls + (IF NeedsReply(o.rt, log.Type) THEN 1 ELSE 0)] :
                          reply \in RepliesFor(o.rt, log.Type)} : o \in outs},
         aug, Tail(history))
\* the outcomes of the rebuild of sendEvent with what its replay ran
RebuildEffects(aug, st) ==
  LET initialData == IF Unmarshal(st.Initial) = JInvalid THEN JMap("absent")
                     ELSE Unmarshal(st.Initial)
  IN ReplayEffects({[rt |-> StartRuntime(aug, initialData), ran |-> 0, calls |-> 0]},
                   aug, st.History)

\* the rebuild: Start, replayRuntime, then instances.LoadOrStore(mid, plain
\* map) and the assertion v.(map[string]*Runtime), which panics on a *sync.Map
SendRebuild(p) ==
  /\ req[p].pc = "sRebuild"
  /\ \/ /\ Fault
        /\ Fail(p, "error")
        /\ UNCHANGED <<instances, delivered>>
     \/ /\ NoFault
        /\ \E o \in RebuildEffects(req[p].aug, req[p].st) :
             LET rt == o.rt IN
             IF rt.cur = <<>>
               THEN Fail(p, "error") /\ UNCHANGED <<instances, delivered>>
               ELSE IF instances.kind = "sync"
                 THEN Fail(p, "panic") /\ UNCHANGED instances /\ delivered' = Ended(p)
                 ELSE /\ instances' = [kind |-> "plain", m |-> instances.m]
                      /\ req' = [req EXCEPT ![p].rt = rt, ![p].pc = "sStore",
                                            ![p].replay = [ran |-> o.ran, calls |-> o.calls]]
                      /\ UNCHANGED <<resp, delivered>>
  /\ UNCHANGED <<toolVars, cfgVars, agentVars, evalVars, allocated, machine, files, tmps, nextInstanceID, instanceMutexes, held, augCache,
                 shadow, nreq, nrestart>>

\* instMap[iid] = rt on the plain map every rebuild of this machine shares,
\* and instances.Store(mid, instMap)
SendStore(p) ==
  /\ req[p].pc = "sStore"
  /\ instances' = [instances EXCEPT !.m[req[p].iid] = req[p].rt]
  /\ req' = [req EXCEPT ![p].alias = TRUE, ![p].pc = "sCheck"]
  /\ UNCHANGED <<toolVars, cfgVars, agentVars, evalVars, allocated, machine, files, tmps, nextInstanceID, instanceMutexes, held, augCache,
                 resp, shadow, nreq, nrestart, nfault, delivered>>

\* aug.EventIDByName[evtReq.Type], rt.ProcessEvent(evt), the append to the
\* loaded history
SendProcess(p) ==
  /\ req[p].pc = "sCheck"
  /\ IF req[p].typ \notin EventIDByName(req[p].aug)
       THEN /\ Fail(p, "bad request")
            /\ UNCHANGED <<instances, shadow>>
       ELSE \E reply \in RepliesFor(req[p].rt, req[p].typ) :
              LET rt == ProcessEvent(req[p].rt, req[p].typ, reply)
                  newLog == EventLog(req[p].typ, Marshal(req[p].data))
              IN /\ req' = [req EXCEPT ![p].rt = rt,
                                       ![p].st.History = Append(@, newLog),
                                       ![p].pc = "sWrite"]
                 /\ instances' = [instances EXCEPT !.m[req[p].iid] = rt]
                 /\ shadow' = [shadow EXCEPT ![req[p].iid] =
                                 IF @.cur = <<>> THEN @
                                 ELSE ProcessEvent(@, req[p].typ, reply)]
                 /\ UNCHANGED resp
  /\ UNCHANGED <<toolVars, cfgVars, agentVars, evalVars, allocated, machine, files, tmps, nextInstanceID, instanceMutexes, held, augCache,
                 nreq, nrestart, nfault, delivered>>

(***************************************************************************)
(* deleteInstance                                                          *)
(***************************************************************************)
\* getInstanceMutex
BeginDelete(p) ==
  /\ req[p].pc = "idle" /\ nreq < MaxReq
  /\ \E iid \in Iids :
       /\ instanceMutexes' = getInstanceMutex(instanceMutexes, iid)
       /\ req' = [req EXCEPT ![p] =
                    [Idle EXCEPT !.op = "delete", !.iid = iid,
                                 !.mu = instanceMutexes'[iid], !.pc = "dLock"]]
  /\ nreq' = nreq + 1
  /\ UNCHANGED <<toolVars, cfgVars, agentVars, evalVars, allocated, machine, files, tmps, instances, nextInstanceID, held, augCache,
                 resp, shadow, nrestart, nfault, delivered>>

\* "Cleanup in-memory runtime": only a value that is a plain
\* map[string]*Runtime passes the checked assertion; rt.Stop(), delete
Cleanup(inst, iid) ==
  IF inst.kind = "plain" THEN [inst EXCEPT !.m[iid] = NoRt] ELSE inst

\* deleteInstanceState (a missing file is no error), then the cleanup
DeleteRemove(p) ==
  /\ req[p].pc = "dRemove"
  /\ \/ /\ Fault
        /\ Fail(p, "error")
        /\ UNCHANGED <<files, instances, shadow, delivered>>
     \/ /\ NoFault
        /\ files' = [files EXCEPT ![req[p].iid] = NoFile]
        /\ instances' = Cleanup(instances, req[p].iid)
        /\ shadow' = [shadow EXCEPT ![req[p].iid] = NoRt]
        /\ delivered' = [delivered EXCEPT ![req[p].iid] = 0]
        /\ resp' = [resp EXCEPT ![p] = Resp(req[p], "ok", <<>>, 0)]
        /\ req' = [req EXCEPT ![p].pc = "unlock"]
  /\ UNCHANGED <<toolVars, cfgVars, agentVars, evalVars, allocated, machine, tmps, nextInstanceID, instanceMutexes, held, augCache,
                 nreq, nrestart>>

(***************************************************************************)
(* The process is killed and started again: the package variables start    *)
(* over, the files stay.                                                   *)
(***************************************************************************)
Restart ==
  /\ nrestart < MaxRestarts
  /\ nrestart' = nrestart + 1
  /\ instances' = NoInstances
  /\ nextInstanceID' = 0
  /\ instanceMutexes' = [i \in Iids |-> 0]
  /\ held' = {}
  /\ augCache' = NoAug
  /\ req' = [p \in Procs |-> Idle]
  /\ resp' = [p \in Procs |-> NoResp]
  /\ UNCHANGED <<toolVars, cfgVars, agentVars, evalVars, allocated, machine, files, tmps, shadow, nreq, nfault, delivered>>

Next ==
  \/ \E p \in Procs :
       \/ BeginCreate(p) \/ AugList(p) \/ CreateAlloc(p) \/ Lock(p) \/ Unlock(p)
       \/ SaveWrite(p) \/ SaveRename(p) \/ CreateStart(p)
       \/ BeginSend(p) \/ SendLoad(p) \/ SendFind(p) \/ SendRebuild(p) \/ SendStore(p) \/ SendProcess(p)
       \/ BeginDelete(p) \/ DeleteRemove(p)
  \/ Restart

Spec == Init /\ [][Next]_vars

(***************************************************************************)
(* Properties of the instance lifecycle manager.                           *)
(***************************************************************************)
\* the request of p is between mu.Lock() and the deferred mu.Unlock()
InLocked(p) ==
  req[p].pc \in {"cWrite", "cRename", "cStart", "sLoad", "sList", "sFind", "sRebuild", "sStore",
                 "sCheck", "sWrite", "sRename", "dRemove", "unlock"}
\* the request of p has obtained its mutex from getInstanceMutex
HasMutex(p) == req[p].pc \notin {"idle", "cList", "cAlloc", "return"}
Known(typ) == typ \in eventsSeen(SpecOf(machine))
Answered(p, op, code) ==
  req[p].pc = "unlock" /\ req[p].op = op /\ resp[p].code = code

\* C1: at most one request at a time is inside the locked section of an
\* instance; a key's lock is created once and every caller of the key is
\* handed that same lock.
C1_OneRequestPerInstance ==
  /\ \A p, q \in Procs :
       p # q /\ InLocked(p) /\ InLocked(q) => req[p].iid # req[q].iid
  /\ \A i \in Iids : instanceMutexes[i] \in {0, 1}
  /\ \A p \in Procs : HasMutex(p) => req[p].mu = instanceMutexes[req[p].iid]
\* a delivery waits for the lock while another request of the same instance
\* is in the locked section
C1_Witness ==
  \E p, q \in Procs :
    /\ p # q /\ req[p].iid = req[q].iid
    /\ req[p].pc = "sWrite" /\ req[q].pc \in {"sLock", "dLock"}

\* C2: when nothing fails, the persisted history of an instance holds one
\* entry for every delivery of a known event type that was issued to it,
\* once no request of the instance is in flight: k concurrent deliveries
\* grow it by exactly k.
C2_HistoryCountsDeliveries ==
  \A i \in Iids :
    (/\ nfault = 0 /\ files[i].kind = "full"
     /\ \A p \in Procs : HasMutex(p) => req[p].iid # i)
      => Len(files[i].History) = delivered[i]

\* C3: the persisted history is append-only: a successful delivery leaves
\* the previous history followed by one entry with the delivered type and
\* data and reports the new count; a step that is not a delete leaves the
\* history of an existing file as it was or one entry longer.
C3_AppendOnly ==
  [][/\ \A p \in Procs :
          (req[p].pc = "sRename" /\ resp'[p].code = "ok") =>
             /\ files'[req[p].iid].History =
                  Append(files[req[p].iid].History,
                         EventLog(req[p].typ, Marshal(req[p].data)))
             /\ resp'[p].history = Len(files'[req[p].iid].History)
     /\ \A i \in Iids :
          files[i].kind = "full" =>
             \/ /\ files'[i].kind = "none"
                /\ \E p \in Procs : req[p].pc = "dRemove" /\ req[p].iid = i
             \/ /\ files'[i].kind = "full"
                /\ \/ files'[i].History = files[i].History
                   \/ /\ Len(files'[i].History) = Len(files[i].History) + 1
                      /\ SubSeq(files'[i].History, 1, Len(files[i].History))
                           = files[i].History
    ]_vars

\* C4: a delivery answered after a restart reports the current state that a
\* process which never restarted reports, whenever the persisted history is
\* the list of events that process handled.
C4_RestartEquivalence ==
  \A p \in Procs :
    (/\ Answered(p, "send", "ok")
     /\ shadow[req[p].iid].cur # <<>>
     /\ shadow[req[p].iid].n = Len(req[p].st.History))
      => /\ resp[p].current = Current(shadow[req[p].iid])
         /\ files[req[p].iid].History = req[p].st.History

\* C5: replaying a persisted log from its persisted initial context always
\* ends in the same current state, whichever compilation of the spec built
\* the runtime.
C5_ReplayDeterminism ==
  \A i \in Iids :
    files[i].kind = "full" =>
      Cardinality({rt.cur : rt \in UNION {Rebuild(aug, files[i]) :
                                            aug \in ToAugmentedMachine(machine)}}) = 1

\* C6: when nothing fails, a delivery of an event type the machine does not
\* have, to an existing instance, is answered with the client error and
\* leaves the persisted state and the cached runtime as they were.
C6_UnknownEventRejected ==
  \A p \in Procs :
    (/\ req[p].pc = "unlock" /\ req[p].op = "send" /\ ~Known(req[p].typ)
     /\ nfault = 0 /\ resp[p].code # "not found")
      => /\ resp[p].code = "bad request"
         /\ files[req[p].iid] = req[p].st
         /\ instances.m[req[p].iid] = req[p].rt

\* C7: after a successful delivery the persisted history holds every event
\* the live runtime of the instance has processed.
C7_PersistCatchesUp ==
  \A p \in Procs :
    Answered(p, "send", "ok") => Len(files[req[p].iid].History) = req[p].rt.n

\* C8: a save never exposes a partially written file: the destination never
\* holds a cut-short file; it changes only in the rename of a save, to the
\* complete state being saved, or in a delete; a failed rename removes the
\* temp file and leaves the destination as it was.  A crash between the two
\* steps leaves the destination as it was.
C8_AtomicSave ==
  [][/\ \A i \in Iids :
          /\ files'[i].kind # "partial"
          /\ files'[i] # files[i] =>
                \/ \E p \in Procs :
                     /\ req[p].iid = i /\ req[p].pc \in {"cRename", "sRename"}
                     /\ req[p].st.kind = "full" /\ files'[i] = req[p].st
                \/ \E p \in Procs :
                     /\ req[p].iid = i /\ req[p].pc = "dRemove"
                     /\ files'[i] = NoFile
     /\ \A p \in Procs :
          (req[p].pc \in {"cRename", "sRename"} /\ resp'[p].code = "error") =>
             /\ files' = files
             /\ tmps'[req[p].iid] = NoFile
     /\ nrestart' # nrestart => files' = files
    ]_vars
\* the process was killed between the write of the temp file and the rename
\* of a delivery: the destination holds the complete previous state
C8_Witness ==
  \E i \in Iids :
    /\ nrestart = 1 /\ \A p \in Procs : req[p].pc = "idle"
    /\ tmps[i].kind = "full" /\ Len(tmps[i].History) = 1
    /\ files[i].kind = "full" /\ files[i].History = <<>>

\* C9: after a delete that answered with success the file of the instance
\* is absent and the cache holds no runtime for it.
C9_DeleteEvicts ==
  \A p \in Procs :
    Answered(p, "delete", "ok") =>
      /\ files[req[p].iid].kind = "none"
      /\ instances.m[req[p].iid] = NoRt

\* C10: a spec that compiles has its initial state among its declared
\* states; a newly created instance reports the leaf that is reached from
\* the initial state through the initial children of compound states, and
\* its persisted state is the initial context with an empty history.
C10_CreateReportsInitialLeaf ==
  \A p \in Procs :
    Answered(p, "create", "ok") =>
      LET s == SpecOf(machine)
          c == Tail(resp[p].current)
      IN /\ <<s.Initial>> \in DOMAIN s.States
         /\ resp[p].current # <<>> /\ Head(resp[p].current) = s.ID
         /\ c \in DOMAIN s.States /\ c[1] = s.Initial
         /\ Children(s, c) = {}
         /\ \A k \in 1..(Len(c) - 1) :
              s.States[SubSeq(c, 1, k)].Initial \in {"", c[k + 1]}
         /\ files[req[p].iid] = InstanceState(Marshal(req[p].ictx), <<>>)
\* an instance of the machine whose initial state is compound was created
C10_Witness ==
  \E p \in Procs :
    /\ Answered(p, "create", "ok") /\ machine = "nested"
    /\ resp[p].current = <<"root", "parent", "child1">>
\* C10 as stated: a newly created instance reports the path made of the
\* root id and the initial state
C10_CreateReportsInitial ==
  \A p \in Procs :
    Answered(p, "create", "ok") =>
      /\ resp[p].current = initialFullpath(SpecOf(machine))
      /\ files[req[p].iid].History = <<>>

\* C11: every create of a known machine obtains an id greater than every id
\* allocated before it, so no id is allocated twice; a create of a machine
\* that does not compile allocates no id.
C11_MonotonicIds ==
  /\ \A j, k \in 1..Len(allocated) : j < k => allocated[j] < allocated[k]
  /\ \A p \in Procs :
       (req[p].op = "create" /\ req[p].aug = NoAug) => req[p].iid = 0

\* the initial state named by the spec is one of its declared states
Declared(name) == <<SpecOf(name).Initial>> \in DOMAIN SpecOf(name).States
\* C20: a spec whose initial state is not among its declared states, a spec
\* with no states included, never compiles: no machine and no ID maps are
\* cached or handed to a request, no instance is created from it and every
\* create is answered "not found"; a machine that did compile has a declared
\* initial state.
C20_InitialMustBeDeclared ==
  /\ ~Declared(machine) =>
       /\ augCache = NoAug /\ allocated = <<>>
       /\ \A p \in Procs :
            /\ req[p].aug = NoAug
            /\ resp[p].op = "create" => resp[p].code = "not found"
  /\ augCache # NoAug => Declared(augCache.Spec)
  /\ \A p \in Procs : req[p].aug # NoAug => Declared(req[p].aug.Spec)
C20_Witness ==
  /\ machine = "empty"
  /\ \E p \in Procs : resp[p].op = "create" /\ resp[p].code = "not found"

\* C22: with working persistence, a delivery of a known event type to an
\* existing instance of a known machine is answered with success, whatever
\* the runtime cache holds, and its answer counts at least the event it
\* appended.
C22_DeliverySucceeds ==
  \A p \in Procs :
    (/\ resp[p].op = "send" /\ nfault = 0
     /\ resp[p].typ \in eventsSeen(SpecOf(machine))
     /\ resp[p].code # "not found")
      => resp[p].code = "ok" /\ resp[p].history >= 1

\* the request of p is at an access of the plain map the rebuilds share:
\* the write of the rebuild, or the lookup and delete of deleteInstance
AtPlainMap(p) ==
  \/ req[p].pc = "sStore"
  \/ req[p].pc = "dRemove" /\ instances.kind = "plain"
\* C23: requests on two different instances hold different locks, and while
\* one writes the runtime cache of the machine the other neither reads nor
\* writes the same structure without a lock in common.
C23_NoUnlockedSharing ==
  \A p, q \in Procs :
    (p # q /\ nfault = 0 /\ InLocked(p) /\ InLocked(q) /\ req[p].iid # req[q].iid)
      => /\ <<req[p].iid, req[p].mu>> # <<req[q].iid, req[q].mu>>
         /\ ~(req[p].pc = "sStore" /\ AtPlainMap(q))

\* C30: the default child of a compound state without an explicit initial is
\* one of the declared children of that state, and two compilations of the
\* same spec select the same child.
C30_DefaultChildDeterministic ==
  /\ \A p \in Procs : req[p].aug # NoAug =>
        LET s == SpecOf(req[p].aug.Spec) IN
        \A st \in Defaulted(s) : req[p].aug.Pick[st] \in ChildNames(s, st)
  /\ \A p, q \in Procs :
        (req[p].aug # NoAug /\ req[q].aug # NoAug /\ req[p].aug.Spec = req[q].aug.Spec)
          => req[p].aug.Pick = req[q].aug.Pick

\* C35: the compiled machine whose EventIDByName translates an event that
\* is about to be submitted is the compiled machine the runtime of the
\* instance executes.
C35_SameCompilation ==
  \A p \in Procs : req[p].pc = "sCheck" => req[p].rt.aug = req[p].aug

\* C36: the file a create request has chosen for its new instance holds no
\* persisted instance, those persisted before a restart of the process
\* included.
C36_CreateNeverOverwrites ==
  \A p \in Procs :
    (req[p].op = "create" /\ req[p].pc = "cLock") => files[req[p].iid] = NoFile

\* C37: the replay of the persisted log in the rebuild of a runtime runs no
\* action of an event that is already logged, so it makes no LLM call, and
\* a delivery rejected for an unknown event type has run no guard and no
\* action.
C37_ReplayWithoutEffects ==
  \A p \in Procs :
    /\ req[p].replay.calls = 0
    /\ (req[p].pc = "unlock" /\ resp[p].code = "bad request") => req[p].replay.ran = 0

(***************************************************************************)
(* ToolRegistry.Execute, EnforcePolicies and the rate limiter.             *)
(***************************************************************************)
\* a mutant: the window is never started again
TryAcquireNoReset(rl, t) ==
  IF rl.count >= rl.limit THEN [ok |-> FALSE, rl |-> rl]
  ELSE [ok |-> TRUE, rl |-> [rl EXCEPT !.count = @ + 1]]
\* rateLimiter.TryAcquire at time t: whether the call is granted, and the
\* limiter afterwards
TryAcquire(rl, t) ==
  LET w == IF t - rl.windowStart >= Minute
             THEN [rl EXCEPT !.windowStart = t, !.count = 0]
             ELSE rl
  IN IF w.count >= w.limit THEN [ok |-> FALSE, rl |-> w]
     ELSE [ok |-> TRUE, rl |-> [w EXCEPT !.count = @ + 1]]

\* a mutant: every call gets a limiter of its own
getRateLimiterFresh(rls, toolName, limit, t) ==
  [rls EXCEPT ![<<toolName, limit>>] = [limit |-> limit, windowStart |-> t, count |-> 0]]
\* getRateLimiter: rateLimiters.LoadOrStore(key, limiter starting now)
getRateLimiter(rls, toolName, limit, t) ==
  IF rls[<<toolName, limit>>].limit = 0
    THEN [rls EXCEPT ![<<toolName, limit>>] =
            [limit |-> limit, windowStart |-> t, count |-> 0]]
    ELSE rls

RECURSIVE rateN(_, _)
\* EnforcePolicies: the N of the last well-formed rate_limit policy
rateN(pols, n) ==
  IF pols = <<>> THEN n
  ELSE rateN(Tail(pols),
             IF Head(pols).key = "rate_limit" /\ Head(pols).suffix = "/min"
               THEN Head(pols).n ELSE n)
\* EnforcePolicies: allowedSet and forbiddenSet
allowedSet(pols) ==
  UNION {{pols[i].parts[j] : j \in DOMAIN pols[i].parts} :
           i \in {k \in DOMAIN pols : pols[k].key = "allowed"}}
forbiddenSet(pols) ==
  UNION {{pols[i].parts[j] : j \in DOMAIN pols[i].parts} :
           i \in {k \in DOMAIN pols : pols[k].key = "forbidden"}}

\* a mutant: every call passes
EnforceNothing(toolName, pols, params, rls, t) == [err |-> "", rls |-> rls]
\* EnforcePolicies: the error ("" for nil) and the limiters afterwards
EnforcePolicies(toolName, pols, params, rls, t) ==
  LET n == rateN(pols, 0)
      key == <<toolName, n>>
      rls1 == IF n > 0 THEN getRateLimiter(rls, toolName, n, t) ELSE rls
      acq == IF n > 0 THEN TryAcquire(rls1[key], t) ELSE [ok |-> TRUE, rl |-> NoLimiter]
      rls2 == IF n > 0 THEN [rls1 EXCEPT ![key] = acq.rl] ELSE rls
      cmd == params.command
  IN [rls |-> rls2,
      err |-> IF ~acq.ok THEN "rate limit exceeded"
              ELSE IF toolName # "bash_exec" THEN ""
              ELSE IF cmd.t = "absent" THEN "missing 'command'"
              ELSE IF cmd.t # "string" THEN "'command' must be string"
              ELSE IF FirstField(cmd.s) = <<>> THEN "empty command"
              ELSE IF allowedSet(pols) # {} /\ FirstField(cmd.s) \notin allowedSet(pols)
                THEN "not allowed"
              ELSE IF \E fb \in forbiddenSet(pols) : Contains(cmd.s, fb)
                THEN "forbidden"
              ELSE ""]

\* Tool.Execute: the errors a run of the tool can return ("" for nil); the
\* shell commands of Calls are ones that succeed
RunTool(toolName, params) ==
  IF toolName = "parse_xml"
    THEN {IF params.xml.t = "string" THEN "" ELSE "xml must be string"}
    ELSE {IF params.command.t = "string" THEN "" ELSE "command must be string"}

\* one call of ToolRegistry.Execute as the log records it
ExecEntry(c, err, ran) ==
  [tool |-> c.tool, params |-> c.params, t |-> now, err |-> err, ran |-> ran]

\* ToolRegistry.Execute(ctx, toolName, params, policies)
Execute(c) ==
  /\ Len(execLog) < MaxExec
  /\ IF Get(c.tool) = ""
       THEN /\ execLog' = Append(execLog, ExecEntry(c, "unknown tool", FALSE))
            /\ UNCHANGED rateLimiters
       ELSE LET e == EnforcePolicies(c.tool, policies, c.params, rateLimiters, now) IN
            /\ rateLimiters' = e.rls
            /\ IF e.err # ""
                 THEN execLog' = Append(execLog, ExecEntry(c, e.err, FALSE))
                 ELSE \E out \in RunTool(c.tool, c.params) :
                        execLog' = Append(execLog, ExecEntry(c, out, TRUE))
  /\ UNCHANGED <<acquiring, now, policies, loop, cfgVars, agentVars, evalVars, instanceVars>>

\* time passes
Tick ==
  /\ now < MaxClock
  /\ now' = now + TickSeconds
  /\ UNCHANGED <<acquiring, rateLimiters, policies, execLog, loop, cfgVars, agentVars, evalVars, instanceVars>>

ToolInit ==
  /\ machine = "trafficlight" /\ InstancesIdle /\ ConfigIdle /\ AgentsIdle /\ EvalIdle
  /\ now = 0 /\ rateLimiters = NoLimiters /\ policies \in PolicySets
  /\ execLog = <<>> /\ loop = NoLoop
  /\ acquiring = [p \in Procs |-> NoAcquire]
ToolNext == Tick \/ \E c \in Calls : Execute(c)
ToolSpec == ToolInit /\ [][ToolNext]_vars

(***************************************************************************)
(* Concurrent callers of EnforcePolicies at the rate limit: each comes     *)
(* with the tool name and the N of its own policy list.                    *)
(***************************************************************************)
\* EnforcePolicies found rate_limit: limit/min in the policies of the caller
EnterLimit(p, toolName, limit) ==
  /\ acquiring[p].pc = "idle"
  /\ Len(execLog) + Cardinality({q \in Procs : acquiring[q].pc # "idle"}) < MaxExec
  /\ acquiring' = [acquiring EXCEPT ![p] = [pc |-> "get", tool |-> toolName, limit |-> limit]]
  /\ UNCHANGED <<now, rateLimiters, policies, execLog, loop, cfgVars, agentVars, evalVars, instanceVars>>
\* r.getRateLimiter(toolName, n): one atomic LoadOrStore
GetLimiter(p) ==
  /\ acquiring[p].pc = "get"
  /\ rateLimiters' = getRateLimiter(rateLimiters, acquiring[p].tool, acquiring[p].limit, now)
  /\ acquiring' = [acquiring EXCEPT ![p].pc = "acquire"]
  /\ UNCHANGED <<now, policies, execLog, loop, cfgVars, agentVars, evalVars, instanceVars>>
\* rl.TryAcquire(), all of it between rl.mu.Lock() and rl.mu.Unlock()
Acquire(p) ==
  /\ acquiring[p].pc = "acquire"
  /\ LET key == <<acquiring[p].tool, acquiring[p].limit>>
         acq == TryAcquire(rateLimiters[key], now)
     IN /\ rateLimiters' = [rateLimiters EXCEPT ![key] = acq.rl]
        /\ execLog' = Append(execLog, [tool |-> key[1], limit |-> key[2], t |-> now,
                                       ok |-> acq.ok])
  /\ acquiring' = [acquiring EXCEPT ![p] = NoAcquire]
  /\ UNCHANGED <<now, policies, loop, cfgVars, agentVars, evalVars, instanceVars>>
\* time passes
LimitTick ==
  /\ now < MaxClock
  /\ now' = now + TickSeconds
  /\ UNCHANGED <<acquiring, rateLimiters, policies, execLog, loop, cfgVars, agentVars, evalVars,
                 instanceVars>>

LimitInit ==
  /\ machine = "trafficlight" /\ InstancesIdle /\ ConfigIdle /\ AgentsIdle /\ EvalIdle /\ ToolsIdle
LimitNext ==
  \/ LimitTick
  \/ \E p \in Procs :
       \/ \E key \in RateKeys : EnterLimit(p, key[1], key[2])
       \/ GetLimiter(p)
       \/ Acquire(p)
LimitSpec == LimitInit /\ [][LimitNext]_vars

\* the calls a pair was granted since its limiter's window started
GrantsInWindow(key) ==
  {k \in DOMAIN execLog : /\ execLog[k].ok /\ <<execLog[k].tool, execLog[k].limit>> = key
                          /\ execLog[k].t >= rateLimiters[key].windowStart}
\* C27: the callers of one (tool name, limit) pair share one limiter whose
\* counter is the number of calls they were granted in its window, all of
\* them together, and never exceeds the limit; calls under another tool name
\* or another limit count on their own limiter.
C27_SharedLimiter ==
  \A key \in RateKeys :
    /\ rateLimiters[key].limit \in {0, key[2]}
    /\ rateLimiters[key].count <= key[2]
    /\ rateLimiters[key].count = Cardinality(GrantsInWindow(key))
    /\ rateLimiters[key].limit = 0 => \A k \in DOMAIN execLog :
                                        <<execLog[k].tool, execLog[k].limit>> # key
\* two callers of one pair were in the check together; the first call was
\* granted, the second denied, and a call of another pair was granted
C27_Witness ==
  /\ Len(execLog) >= 3
  /\ execLog[1].ok /\ ~execLog[2].ok
  /\ <<execLog[1].tool, execLog[1].limit>> = <<execLog[2].tool, execLog[2].limit>>
  /\ execLog[2].t = execLog[1].t
  /\ execLog[3].ok /\ execLog[3].tool = execLog[1].tool /\ execLog[3].limit # execLog[1].limit
  /\ execLog[3].t = execLog[1].t

(***************************************************************************)
(* Properties of the tool registry.                                        *)
(***************************************************************************)
\* the N of the rate_limit policy in force, 0 when there is none
Quota == rateN(policies, 0)
RECURSIVE WindowAfter(_, _, _)
\* the rate window of a tool after the first k calls of a log: whether one
\* was opened, when it started, how many calls it has granted
WindowAfter(log, toolName, k) ==
  IF k = 0 THEN [open |-> FALSE, start |-> 0, used |-> 0]
  ELSE LET w == WindowAfter(log, toolName, k - 1)
           e == log[k]
           cur == IF ~w.open \/ e.t - w.start >= Minute
                    THEN [open |-> TRUE, start |-> e.t, used |-> 0]
                    ELSE w
       IN IF e.tool # toolName THEN w
          ELSE IF cur.used < Quota THEN [cur EXCEPT !.used = @ + 1] ELSE cur
\* call k of the log arrives when its window has granted its N calls and has
\* not elapsed
WindowFull(log, k) ==
  LET w == WindowAfter(log, log[k].tool, k - 1) IN
  Quota > 0 /\ w.open /\ log[k].t - w.start < Minute /\ w.used >= Quota
\* the command of a bash_exec call breaks the allow-list or holds a
\* forbidden substring
CommandRejected(e) ==
  /\ e.tool = "bash_exec" /\ e.params.command.t = "string"
  /\ FirstField(e.params.command.s) # <<>>
  /\ \/ /\ allowedSet(policies) # {}
        /\ FirstField(e.params.command.s) \notin allowedSet(policies)
     \/ \E fb \in forbiddenSet(policies) : Contains(e.params.command.s, fb)

\* C14: Execute runs a tool only after the policies passed: a call of an
\* unregistered tool fails as unknown, runs nothing and leaves every rate
\* limiter as it was; a call that the rate limit, the allow-list or a
\* forbidden substring rejects returns an error and the tool is not run.
C14_ExecuteEnforcesPolicies ==
  [][Len(execLog') > Len(execLog) =>
       LET k == Len(execLog')
           e == execLog'[k]
       IN /\ e.tool \notin Registered =>
               e.err = "unknown tool" /\ ~e.ran /\ rateLimiters' = rateLimiters
          /\ (e.tool \in Registered /\ (WindowFull(execLog', k) \/ CommandRejected(e)))
               => e.err # "" /\ ~e.ran
          /\ e.ran => e.tool \in Registered /\ e.err \in RunTool(e.tool, e.params)
    ]_vars
\* an unknown tool, a rate-limited call and a forbidden command were refused
C14_Witness ==
  /\ \E k \in DOMAIN execLog : execLog[k].err = "unknown tool"
  /\ \E k \in DOMAIN execLog : execLog[k].err = "rate limit exceeded"
  /\ \E k \in DOMAIN execLog : execLog[k].err = "forbidden" /\ ~execLog[k].ran

\* C15: under rate_limit N/min a call of a tool whose window has granted N
\* calls and has not lasted 60 seconds is denied; a call that arrives 60
\* seconds or more after the start of the window starts a new window and is
\* granted; the limiter holds the start and the count of that window.
C15_RateWindow ==
  \A k \in DOMAIN execLog :
    (Quota > 0 /\ execLog[k].tool \in Registered) =>
      /\ WindowFull(execLog, k) <=> execLog[k].err = "rate limit exceeded"
      /\ LET w == WindowAfter(execLog, execLog[k].tool, Len(execLog))
             rl == rateLimiters[<<execLog[k].tool, Quota>>]
         IN rl.limit = Quota /\ rl.windowStart = w.start /\ rl.count = w.used
              /\ rl.count <= Quota
\* under 2/min the third call within the minute was denied and a call after
\* the minute was granted
C15_Witness ==
  /\ policies = <<RateLimit(2, "/min")>> /\ Len(execLog) = 4
  /\ \A k \in 1..4 : execLog[k].tool = "parse_xml"
  /\ execLog[1].ran /\ execLog[2].ran
  /\ execLog[3].err = "rate limit exceeded" /\ execLog[3].t - execLog[1].t < Minute
  /\ execLog[4].t - execLog[1].t >= Minute /\ execLog[4].ran

\* call k of the log was granted by the rate limiter of its tool
Granted(k) ==
  execLog[k].tool \in Registered /\ execLog[k].err # "rate limit exceeded"
\* C26: under rate_limit N/min no interval of 60 seconds holds more than N
\* granted calls of a tool, wherever the interval lies.
C26_SlidingWindow ==
  \A k \in DOMAIN execLog :
    (Quota > 0 /\ Granted(k)) =>
      Cardinality({j \in 1..k : /\ Granted(j) /\ execLog[j].tool = execLog[k].tool
                                /\ execLog[k].t - execLog[j].t < Minute}) <= Quota

(***************************************************************************)
(* The llm_with_tools action of resolveAction: the tool-use loop.          *)
(***************************************************************************)
\* the iterations of a loop whose config gives no max_iter
DefaultMaxIter == 5
\* the largest max_iter a config gives
MaxIter == 2

\* a value of the key max_iter: absent, a YAML or JSON number, or a string
MaxIterValues ==
  {[t |-> "absent", n |-> 0], [t |-> "string", n |-> 0]}
  \cup {[t |-> ty, n |-> n] : ty \in {"int", "float64"}, n \in 1..MaxIter}
\* the values of the key tools
ToolLists == {<<>>, <<"parse_xml">>, <<"nope">>, <<"nope", "bash_exec">>}
\* toolSchemas: the configured tools that the registry has
toolSchemas(toolNames) ==
  SelectSeq(toolNames, LAMBDA tn : Get(tn) # "")

\* a mutant: a loop without tools keeps its max_iter
maxIterUnforced(mi, hasTools) ==
  IF mi.t \in {"int", "float64"} THEN mi.n ELSE DefaultMaxIter
\* a mutant: the configured max_iter is not read
maxIterDefault(mi, hasTools) == IF hasTools THEN DefaultMaxIter ELSE 1
\* maxIter of the closure: the configured number, 5 without one, 1 when no
\* configured tool is registered
maxIter(mi, hasTools) ==
  IF ~hasTools THEN 1
  ELSE IF mi.t \in {"int", "float64"} THEN mi.n
  ELSE DefaultMaxIter

\* what llm.DefaultCaller.Call returns: an error, a text that is no JSON
\* object, or a JSON object: with a tool_use that is an object with a name
\* and maybe params, with a tool_use that is no object, or without tool_use
LLMError == [kind |-> "error", name |-> "", hasParams |-> FALSE, params |-> NoParams]
LLMText == [kind |-> "text", name |-> "", hasParams |-> FALSE, params |-> NoParams]
LLMPatch == [kind |-> "patch", name |-> "", hasParams |-> FALSE, params |-> NoParams]
LLMToolUseString ==
  [kind |-> "tool_use not map", name |-> "", hasParams |-> FALSE, params |-> NoParams]
LLMToolUse(name, hasParams, params) ==
  [kind |-> "tool_use", name |-> name, hasParams |-> hasParams, params |-> params]
LLMResponses ==
  {LLMError, LLMText, LLMPatch, LLMToolUseString,
   LLMToolUse("nope", TRUE, NoParams),
   LLMToolUse("parse_xml", FALSE, NoParams),
   LLMToolUse("parse_xml", TRUE, Params(NoValue, StringValue(<<"<", ">">>))),
   LLMToolUse("parse_xml", TRUE, Params(NoValue, NumberValue)),
   LLMToolUse("bash_exec", TRUE, Params(StringValue(CmdLs), NoValue)),
   LLMToolUse("bash_exec", TRUE, Params(StringValue(CmdRm), NoValue))}
\* the response asks for a registered tool with a params object
RunsTool(r) == r.kind = "tool_use" /\ r.hasParams /\ Get(r.name) # ""

\* the closure is called: prompts, maxIter, toolSchemas, msgs
LoopStart ==
  /\ loop.pc = "idle"
  /\ \E mi \in MaxIterValues, toolNames \in ToolLists :
       LET hasTools == toolSchemas(toolNames) # <<>> IN
       loop' = [NoLoop EXCEPT !.pc = "llm", !.hasTools = hasTools,
                              !.maxIter = maxIter(mi, hasTools),
                              !.configured = IF mi.t \in {"int", "float64"} THEN mi.n ELSE 0,
                              !.toolNames = toolNames,
                              !.msgs = <<"system", "user">>]
  /\ UNCHANGED <<acquiring, now, rateLimiters, policies, execLog, cfgVars, agentVars, evalVars, instanceVars>>

\* one iteration: the LLM call and what the loop does with the response
LoopCall ==
  /\ loop.pc = "llm" /\ loop.iter < loop.maxIter
  /\ \E r \in LLMResponses :
       LET l == [loop EXCEPT !.calls = @ + 1, !.allToolUse = @ /\ RunsTool(r),
                             !.lastKind = r.kind] IN
       IF r.kind = "error" THEN loop' = [l EXCEPT !.pc = "done", !.ret = "err"]
       ELSE IF r.kind = "text" THEN loop' = [l EXCEPT !.pc = "done", !.ret = "nil"]
       ELSE IF RunsTool(r)
         THEN \E terr \in RunTool(r.name, r.params) :
                loop' = [l EXCEPT !.iter = @ + 1, !.tools = @ + 1,
                                  !.lastRun = [tool |-> r.name, params |-> r.params],
                                  !.msgs = Append(@, IF terr = "" THEN "result" ELSE "failed")]
         ELSE loop' = [l EXCEPT !.pc = "done", !.ret = "nil", !.patched = TRUE]
  /\ UNCHANGED <<acquiring, now, rateLimiters, policies, execLog, cfgVars, agentVars, evalVars, instanceVars>>

\* "max iterations reached without final"
LoopExhaust ==
  /\ loop.pc = "llm" /\ loop.iter >= loop.maxIter
  /\ loop' = [loop EXCEPT !.pc = "done", !.ret = "nil"]
  /\ UNCHANGED <<acquiring, now, rateLimiters, policies, execLog, cfgVars, agentVars, evalVars, instanceVars>>

LoopInit ==
  /\ machine = "trafficlight" /\ InstancesIdle /\ ConfigIdle /\ AgentsIdle /\ EvalIdle
  /\ now = 0 /\ rateLimiters = NoLimiters /\ policies \in PolicySets
  /\ execLog = <<>> /\ loop = NoLoop
  /\ acquiring = [p \in Procs |-> NoAcquire]
LoopNext == LoopStart \/ LoopCall \/ LoopExhaust
LoopSpec == LoopInit /\ [][LoopNext]_vars

\* C12: a loop with max_iter = N >= 1 and a registered configured tool,
\* whose every LLM response asks for a registered tool with a params object,
\* ends after exactly N LLM calls and N tool runs, without a context patch
\* and without an error.
C12_LoopRunsMaxIter ==
  (/\ loop.pc = "done" /\ loop.hasTools /\ loop.configured >= 1 /\ loop.allToolUse)
    => /\ loop.calls = loop.configured /\ loop.tools = loop.configured
       /\ Len(loop.msgs) = 2 + loop.configured
       /\ ~loop.patched /\ loop.ret = "nil"
\* a loop with max_iter = 2 gave up after two tool runs
C12_Witness ==
  /\ loop.pc = "done" /\ loop.hasTools /\ loop.configured = 2 /\ loop.allToolUse
  /\ loop.tools = 2

\* C13: a tool that the loop ran on the request of the LLM passed the
\* policies in force: its command is not rejected by the allow-list or a
\* forbidden substring and the run was counted by the rate limiter.
C13_LoopEnforcesPolicies ==
  loop.lastRun # NoRun =>
    /\ ~CommandRejected(loop.lastRun)
    /\ Quota > 0 => rateLimiters[<<loop.lastRun.tool, Quota>>].count >= 1

\* C16: an action that ended returned no error.
C16_ActionsReturnNil ==
  loop.pc = "done" => loop.ret = "nil"

\* C38: the loop runs only tools that the tools list of its action names: a
\* tool_use for a registered tool that the list does not name is not run,
\* and a loop whose action lists no tool runs none.
C38_OnlyConfiguredTools ==
  /\ loop.lastRun # NoRun =>
       \E i \in 1..Len(loop.toolNames) : loop.toolNames[i] = loop.lastRun.tool
  /\ loop.toolNames = <<>> => loop.tools = 0

\* C24: the loop merges a response into the context only when the response
\* has no tool_use: a response whose tool_use is malformed or names a tool
\* that is not registered is never merged, and the loop goes on to another
\* iteration only after it ran a registered tool.
C24_PatchHasNoToolUse ==
  /\ loop.patched => loop.lastKind = "patch"
  /\ loop.iter = loop.tools

\* C25: a loop none of whose configured tools is registered, an empty tools
\* list included, makes exactly one LLM call whatever max_iter says.
C25_NoToolsOneCall ==
  (loop.pc # "idle" /\ ~loop.hasTools)
    => /\ loop.calls <= 1
       /\ loop.pc = "done" => loop.calls = 1
\* a loop with max_iter = 2 and no registered tool ended after one call in
\* which the LLM asked for a tool
C25_Witness ==
  /\ loop.pc = "done" /\ ~loop.hasTools /\ loop.configured = 2
  /\ loop.calls = 1 /\ loop.tools = 1

(***************************************************************************)
(* Config hierarchy resolver (config/resolver.go).  A string is a tuple of *)
(* characters, a float64 is counted in tenths, a map value carries its Go  *)
(* dynamic type, and a pointer is an address of the heap (0 is nil).       *)
(***************************************************************************)
MaxResolve == 2
MaxWrites == 1

StrValue(s) == [t |-> "string", v |-> s]
FloatValue(tenths) == [t |-> "float64", v |-> tenths]
IntValue(n) == [t |-> "int", v |-> n]
ListValue(l) == [t |-> "list", v |-> l]
NilValue == [t |-> "nil", v |-> 0]

RECURSIVE Decimal(_)
Decimal(s) ==
  IF s = <<>> THEN 0 ELSE 10 * Decimal(SubSeq(s, 1, Len(s) - 1)) + Digit(s[Len(s)])
\* strconv.ParseInt(v, 10, 64) on an unsigned decimal
ParseInt(s) ==
  IF IsDigits(s) THEN [ok |-> TRUE, v |-> Decimal(s)] ELSE [ok |-> FALSE, v |-> 0]
\* strconv.ParseFloat(v, 64) on "d", "d.d": the value in tenths
ParseFloat(s) ==
  IF IsDigits(s) THEN [ok |-> TRUE, v |-> 10 * Decimal(s)]
  ELSE IF /\ Len(s) >= 3 /\ s[Len(s) - 1] = "."
          /\ IsDigits(SubSeq(s, 1, Len(s) - 2)) /\ Digit(s[Len(s)]) >= 0
    THEN [ok |-> TRUE, v |-> 10 * Decimal(SubSeq(s, 1, Len(s) - 2)) + Digit(s[Len(s)])]
    ELSE [ok |-> FALSE, v |-> 0]

EnvPrefix == <<"e", "n", "v", ":">>
HasPrefix(s, prefix) ==
  Len(s) >= Len(prefix) /\ SubSeq(s, 1, Len(prefix)) = prefix
TrimPrefix(s, prefix) ==
  IF HasPrefix(s, prefix) THEN SubSeq(s, Len(prefix) + 1, Len(s)) ELSE s
\* os.Getenv: the empty string for a variable that is not set
Getenv(name) == IF name \in DOMAIN environ THEN environ[name] ELSE <<>>

NilMap == <<>>
\* fragments as the YAML or JSON decoder returns them
FragHigh ==
  [llm |-> [model |-> StrValue(<<"h">>), base_url |-> StrValue(<<"u">>),
            api_key |-> StrValue(<<"e", "n", "v", ":", "K">>),
            temperature |-> StrValue(<<"0", ".", "9">>),
            max_tokens |-> StrValue(<<"1", "2">>),
            tool_policies |-> ListValue(<<StrValue(<<"p">>), IntValue(1)>>)]]
FragEmpty ==
  [llm |-> [model |-> StrValue(<<>>), base_url |-> StrValue(<<>>),
            api_key |-> StrValue(EnvPrefix),
            temperature |-> IntValue(1), max_tokens |-> StrValue(<<"x">>)]]
FragLow ==
  [llm |-> [provider |-> StrValue(<<"q">>), api_key |-> StrValue(<<"k">>),
            temperature |-> FloatValue(5), max_tokens |-> IntValue(7),
            allowed_actions |-> ListValue(<<StrValue(<<"a">>)>>)]]
Fragments == {NilMap, FragHigh, FragEmpty, FragLow}

Cell(val) == [t |-> val.t, v |-> val.v, by |-> 0]
Defaults ==
  [DefaultModel |-> <<"d">>, DefaultProvider |-> <<"o">>,
   DefaultAPIKey |-> <<"e", "n", "v", ":", "K">>,
   DefaultBaseURL |-> 1, DefaultTemperature |-> 2, DefaultMaxTokens |-> 3]
DefaultsHeap == <<Cell(StrValue(<<"b">>)), Cell(FloatValue(7)), Cell(IntValue(9))>>
Environs == {<<>>, (<<"K">> :> <<"s">>)}

getLLMMap(m) == IF "llm" \in DOMAIN m THEN m["llm"] ELSE NilMap
levels(machineYAML, actionConfig, guardConfig) ==
  <<getLLMMap(actionConfig), getLLMMap(machineYAML), getLLMMap(guardConfig)>>
Is(llm, key, type) == key \in DOMAIN llm /\ llm[key].t = type
\* the first map of llms that the loop body returns from, 0 for none
FirstLevel(llms, Returns(_)) ==
  LET hits == {i \in 1..Len(llms) : Returns(llms[i])} IN
  IF hits = {} THEN 0 ELSE CHOOSE i \in hits : \A j \in hits : i <= j

getString(machineYAML, actionConfig, guardConfig, key, def) ==
  LET llms == levels(machineYAML, actionConfig, guardConfig)
      Returns(llm) == Is(llm, key, "string")
      i == FirstLevel(llms, Returns)
  IN IF i = 0 THEN def ELSE llms[i][key].v

\* the getters of pointers give the heap after the allocation and the address
getStringPtr(h, machineYAML, actionConfig, guardConfig, key) ==
  LET llms == levels(machineYAML, actionConfig, guardConfig)
      Returns(llm) == Is(llm, key, "string") /\ llm[key].v # <<>>
      i == FirstLevel(llms, Returns)
  IN IF i = 0 THEN [heap |-> h, ptr |-> 0]
     ELSE [heap |-> Append(h, Cell(llms[i][key])), ptr |-> Len(h) + 1]

getFloatPtr(h, machineYAML, actionConfig, guardConfig, key) ==
  LET llms == levels(machineYAML, actionConfig, guardConfig)
      Parses(llm) == Is(llm, key, "string") /\ llm[key].v # <<>>
      Returns(llm) ==
        IF Parses(llm) THEN ParseFloat(llm[key].v).ok ELSE Is(llm, key, "float64")
      i == FirstLevel(llms, Returns)
      f == IF Parses(llms[i]) THEN ParseFloat(llms[i][key].v).v ELSE llms[i][key].v
  IN IF i = 0 THEN [heap |-> h, ptr |-> 0]
     ELSE [heap |-> Append(h, Cell(FloatValue(f))), ptr |-> Len(h) + 1]

getIntPtr(h, machineYAML, actionConfig, guardConfig, key) ==
  LET llms == levels(machineYAML, actionConfig, guardConfig)
      Parses(llm) == Is(llm, key, "string") /\ llm[key].v # <<>>
      Returns(llm) ==
        IF Parses(llm) THEN ParseInt(llm[key].v).ok
        ELSE Is(llm, key, "float64") \/ Is(llm, key, "int")
      i == FirstLevel(llms, Returns)
      n == IF Parses(llms[i]) THEN ParseInt(llms[i][key].v).v
           ELSE IF Is(llms[i], key, "float64") THEN llms[i][key].v \div 10
           ELSE llms[i][key].v
  IN IF i = 0 THEN [heap |-> h, ptr |-> 0]
     ELSE [heap |-> Append(h, Cell(IntValue(n))), ptr |-> Len(h) + 1]

Strings(seq) ==
  LET str == SelectSeq(seq, LAMBDA val : val.t = "string") IN
  [i \in 1..Len(str) |-> str[i].v]
getStringSlice(m, key) ==
  IF Is(m, key, "list") THEN Strings(m[key].v) ELSE <<>>

resolveAPIKey(raw) ==
  IF HasPrefix(raw, EnvPrefix) THEN Getenv(TrimPrefix(raw, EnvPrefix)) ELSE raw

Deref(h, ptr) == IF ptr = 0 THEN NilValue ELSE [t |-> h[ptr].t, v |-> h[ptr].v]

\* ConfigHierarchyResolver.Resolve: the heap it leaves and the record it returns
ResolveConfig(machineYAML, actionConfig, guardConfig) ==
  LET b == getStringPtr(heap, machineYAML, actionConfig, guardConfig, "base_url")
      baseURL == IF b.ptr = 0 THEN appcfg.DefaultBaseURL ELSE b.ptr
      f == getFloatPtr(b.heap, machineYAML, actionConfig, guardConfig, "temperature")
      temperature == IF f.ptr = 0 THEN appcfg.DefaultTemperature ELSE f.ptr
      n == getIntPtr(f.heap, machineYAML, actionConfig, guardConfig, "max_tokens")
      maxTokens == IF n.ptr = 0 THEN appcfg.DefaultMaxTokens ELSE n.ptr
  IN [heap |-> n.heap,
      res |-> [Model |-> getString(machineYAML, actionConfig, guardConfig, "model",
                                   appcfg.DefaultModel),
               Provider |-> getString(machineYAML, actionConfig, guardConfig, "provider",
                                      appcfg.DefaultProvider),
               BaseURL |-> baseURL,
               Temperature |-> temperature,
               MaxTokens |-> maxTokens,
               APIKey |-> resolveAPIKey(getString(machineYAML, actionConfig, guardConfig,
                                                  "api_key", appcfg.DefaultAPIKey)),
               ToolPolicies |-> getStringSlice(getLLMMap(machineYAML), "tool_policies"),
               AllowedActions |-> getStringSlice(getLLMMap(machineYAML), "allowed_actions")]]

\* one call of Resolve; the entry keeps the arguments and what the pointers
\* of the result referred to when it was returned
Resolve(machineYAML, actionConfig, guardConfig) ==
  /\ Len(resolved) < MaxResolve
  /\ LET out == ResolveConfig(machineYAML, actionConfig, guardConfig) IN
       /\ heap' = out.heap
       /\ resolved' = Append(resolved,
            [res |-> out.res, machineYAML |-> machineYAML,
             actionConfig |-> actionConfig, guardConfig |-> guardConfig,
             BaseURL |-> Deref(out.heap, out.res.BaseURL),
             Temperature |-> Deref(out.heap, out.res.Temperature),
             MaxTokens |-> Deref(out.heap, out.res.MaxTokens)])
  /\ UNCHANGED <<instanceVars, toolVars, agentVars, evalVars, appcfg, environ>>

Written == {a \in 1..Len(heap) : heap[a].by # 0}
Store(ptr, owner) ==
  /\ ptr # 0
  /\ Cardinality(Written) < MaxWrites
  /\ heap' = [heap EXCEPT ![ptr] =
       [t |-> @.t, v |-> IF @.t = "string" THEN Append(@.v, "!") ELSE @.v + 1,
        by |-> owner]]
  /\ UNCHANGED <<instanceVars, toolVars, agentVars, evalVars, appcfg, environ, resolved>>
PtrFields == {"BaseURL", "Temperature", "MaxTokens"}
\* a caller assigns through a pointer field of a record it was given
WriteResult ==
  \E i \in 1..Len(resolved), field \in PtrFields : Store(resolved[i].res[field], i)
\* the application assigns through a pointer field of its defaults
WriteDefault ==
  \E ptr \in {appcfg.DefaultBaseURL, appcfg.DefaultTemperature, appcfg.DefaultMaxTokens} :
    Store(ptr, -1)

ConfigInit ==
  /\ machine = "trafficlight" /\ InstancesIdle /\ ToolsIdle /\ AgentsIdle /\ EvalIdle
  /\ \/ appcfg = NoAppConfig /\ heap = <<>>
     \/ appcfg = Defaults /\ heap = DefaultsHeap
  /\ environ \in Environs
  /\ resolved = <<>>
ConfigNext ==
  \/ \E m, a, g \in Fragments : Resolve(m, a, g)
  \/ WriteResult
  \/ WriteDefault
ConfigSpec == ConfigInit /\ [][ConfigNext]_vars

(***************************************************************************)
(* Properties of the config resolver                                       *)
(***************************************************************************)
Same(x, y) == x.t = y.t /\ x.v = y.v
\* the value a fragment gives a scalar: none when the key is missing, is the
\* empty string, or is a string that is not a number where one is needed
Given(frag, key) ==
  LET llm == getLLMMap(frag) IN
  IF key \notin DOMAIN llm THEN NilValue
  ELSE IF llm[key].t = "string" /\ llm[key].v = <<>> THEN NilValue
  ELSE IF key = "temperature" THEN
    CASE llm[key].t = "string" ->
           IF ParseFloat(llm[key].v).ok THEN FloatValue(ParseFloat(llm[key].v).v) ELSE NilValue
      [] llm[key].t = "int" -> FloatValue(10 * llm[key].v)
      [] OTHER -> llm[key]
  ELSE IF key = "max_tokens" THEN
    CASE llm[key].t = "string" ->
           IF ParseInt(llm[key].v).ok THEN IntValue(ParseInt(llm[key].v).v) ELSE NilValue
      [] llm[key].t = "float64" -> IntValue(llm[key].v \div 10)
      [] OTHER -> llm[key]
  ELSE llm[key]
\* action fragment > machine fragment > guard fragment > application default
Precedence(e, key, def) ==
  IF Given(e.actionConfig, key).t # "nil" THEN Given(e.actionConfig, key)
  ELSE IF Given(e.machineYAML, key).t # "nil" THEN Given(e.machineYAML, key)
  ELSE IF Given(e.guardConfig, key).t # "nil" THEN Given(e.guardConfig, key)
  ELSE def
\* what a default pointer referred to when the entry was resolved: cells of
\* the defaults are written only through a pointer that aliases them
DefaultAt(ptr) == IF ptr = 0 THEN NilValue ELSE [t |-> DefaultsHeap[ptr].t, v |-> DefaultsHeap[ptr].v]

\* C17: every scalar of a resolved config is the value of the highest level
\* (action, machine, guard, application default) that sets it, each scalar on
\* its own, and the two lists are those of the machine fragment alone.
C17_ScalarPrecedence ==
  \A i \in 1..Len(resolved) :
    LET e == resolved[i] IN
    /\ Same(StrValue(e.res.Model), Precedence(e, "model", StrValue(appcfg.DefaultModel)))
    /\ Same(StrValue(e.res.Provider), Precedence(e, "provider", StrValue(appcfg.DefaultProvider)))
    /\ Same(StrValue(e.res.APIKey),
            StrValue(resolveAPIKey(Precedence(e, "api_key", StrValue(appcfg.DefaultAPIKey)).v)))
    /\ Same(e.BaseURL, Precedence(e, "base_url", DefaultAt(appcfg.DefaultBaseURL)))
    /\ Same(e.Temperature, Precedence(e, "temperature", DefaultAt(appcfg.DefaultTemperature)))
    /\ Same(e.MaxTokens, Precedence(e, "max_tokens", DefaultAt(appcfg.DefaultMaxTokens)))
    /\ e.res.ToolPolicies = getStringSlice(getLLMMap(e.machineYAML), "tool_policies")
    /\ e.res.AllowedActions = getStringSlice(getLLMMap(e.machineYAML), "allowed_actions")

\* C32: temperature and max_tokens take a native number (integer or floating
\* point) or a string that encodes a number at every level; the resolved value
\* is that of the highest level that sets the field in either form, and an
\* empty or unparsable string is passed over for the next level.
C32_NumericEitherForm ==
  \A i \in 1..Len(resolved) :
    LET e == resolved[i]
        t == Precedence(e, "temperature", NilValue)
        n == Precedence(e, "max_tokens", NilValue)
    IN /\ t.t # "nil" => Same(e.Temperature, t)
       /\ n.t # "nil" => Same(e.MaxTokens, n)
\* the same for max_tokens alone
MaxTokensEitherForm ==
  \A i \in 1..Len(resolved) :
    LET n == Precedence(resolved[i], "max_tokens", NilValue) IN
    n.t # "nil" => Same(resolved[i].MaxTokens, n)

Ptrs(r) == {r.BaseURL, r.Temperature, r.MaxTokens} \ {0}
DefaultPtrs ==
  {appcfg.DefaultBaseURL, appcfg.DefaultTemperature, appcfg.DefaultMaxTokens} \ {0}
\* C18: two results of one resolver share no pointer field with each other or
\* with the application defaults, so every result still reads what it read
\* when it was returned unless its own holder wrote through it.
C18_NoAliasing ==
  /\ \A i, j \in 1..Len(resolved) :
       i # j => Ptrs(resolved[i].res) \cap Ptrs(resolved[j].res) = {}
  /\ \A i \in 1..Len(resolved) :
       /\ Ptrs(resolved[i].res) \cap DefaultPtrs = {}
       /\ \A field \in PtrFields :
            \/ resolved[i].res[field] = 0
            \/ heap[resolved[i].res[field]].by = i
            \/ Same(Deref(heap, resolved[i].res[field]), resolved[i][field])

\* the string api_key of the highest level that has one, before indirection
RawKey(e) ==
  getString(e.machineYAML, e.actionConfig, e.guardConfig, "api_key", appcfg.DefaultAPIKey)
\* C19: an API key "env:NAME" with a non-empty NAME resolves to the value of
\* the environment variable NAME, the empty string when it is not set; every
\* other key, "env:" with no name included, is returned as it is.
C19_EnvIndirection ==
  \A i \in 1..Len(resolved) :
    LET raw == RawKey(resolved[i]) IN
    IF Len(raw) > Len(EnvPrefix) /\ SubSeq(raw, 1, Len(EnvPrefix)) = EnvPrefix
      THEN resolved[i].res.APIKey =
             (IF SubSeq(raw, Len(EnvPrefix) + 1, Len(raw)) \in DOMAIN environ
                THEN environ[SubSeq(raw, Len(EnvPrefix) + 1, Len(raw))] ELSE <<>>)
      ELSE resolved[i].res.APIKey = raw

(***************************************************************************)
(* Agent registry (registry/registry.go): HireAgent and RetireAgent run    *)
(* between r.mu.Lock() and the deferred r.mu.Unlock().                     *)
(***************************************************************************)
MaxAgents == 2
MaxHires == 3
AgentIDs == 1..MaxHires
\* agents/<template>.yaml: the machine specs and a file that is not there
Templates == MachineNames \cup {"absent"}

\* a registry that admits every hire
NeverAtLimit(n) == FALSE
\* int(r.NumAgents.Load()) >= r.MaxAgents
AtLimit(n) == n >= MaxAgents

\* a caller enters HireAgent(template)
CallHire(p, template) ==
  /\ call[p].pc = "idle"
  /\ uuids + Cardinality({q \in Procs : call[q].pc # "idle" /\ call[q].op = "hire"}) < MaxHires
  /\ call' = [call EXCEPT ![p] = [NoCall EXCEPT !.pc = "lock", !.op = "hire", !.arg = template]]
  /\ UNCHANGED <<instanceVars, toolVars, cfgVars, evalVars, Machines, NumAgents, AgentsDir, mu, uuids>>
\* a caller enters RetireAgent(id)
CallRetire(p, id) ==
  /\ call[p].pc = "idle"
  /\ call' = [call EXCEPT ![p] = [NoCall EXCEPT !.pc = "lock", !.op = "retire", !.id = id]]
  /\ UNCHANGED <<instanceVars, toolVars, cfgVars, evalVars, Machines, NumAgents, AgentsDir, mu, uuids>>
\* r.mu.Lock()
AgentLock(p) ==
  /\ call[p].pc = "lock" /\ mu = 0
  /\ mu' = p
  /\ call' = [call EXCEPT ![p].pc = "locked"]
  /\ UNCHANGED <<instanceVars, toolVars, cfgVars, evalVars, Machines, NumAgents, AgentsDir, uuids>>

\* the body of HireAgent and the deferred r.mu.Unlock()
HireAgent(p) ==
  /\ call[p].pc = "locked" /\ call[p].op = "hire"
  /\ mu' = 0
  /\ \E aug \in IF call[p].arg = "absent" THEN {NoAug} ELSE ToAugmentedMachine(call[p].arg) :
       IF AtLimit(NumAgents)
         THEN /\ call' = [call EXCEPT ![p].pc = "idle", ![p].ret = "ErrMaxAgents"]
              /\ UNCHANGED <<Machines, NumAgents, uuids>>
       ELSE IF AgentsDir = "" \/ call[p].arg = "absent" \/ aug = NoAug
         THEN /\ call' = [call EXCEPT ![p].pc = "idle", ![p].ret = "error"]
              /\ UNCHANGED <<Machines, NumAgents, uuids>>
         ELSE /\ uuids' = uuids + 1
              /\ Machines' = Machines \cup {uuids'}
              /\ NumAgents' = NumAgents + 1
              /\ call' = [call EXCEPT ![p].pc = "idle", ![p].ret = "nil", ![p].id = uuids']
  /\ UNCHANGED <<instanceVars, toolVars, cfgVars, evalVars, AgentsDir>>

\* the body of RetireAgent and the deferred r.mu.Unlock()
RetireAgent(p) ==
  /\ call[p].pc = "locked" /\ call[p].op = "retire"
  /\ mu' = 0
  /\ IF call[p].id \in Machines
       THEN /\ Machines' = Machines \ {call[p].id}
            /\ NumAgents' = NumAgents - 1
            /\ call' = [call EXCEPT ![p].pc = "idle", ![p].ret = "nil"]
       ELSE /\ call' = [call EXCEPT ![p].pc = "idle", ![p].ret = "not found"]
            /\ UNCHANGED <<Machines, NumAgents>>
  /\ UNCHANGED <<instanceVars, toolVars, cfgVars, evalVars, AgentsDir, uuids>>

AgentInit ==
  /\ machine = "trafficlight" /\ InstancesIdle /\ ToolsIdle /\ ConfigIdle /\ EvalIdle
  /\ Machines = {} /\ NumAgents = 0 /\ mu = 0 /\ uuids = 0
  /\ AgentsDir \in {"", "agents"}
  /\ call = [p \in Procs |-> NoCall]
AgentNext ==
  \E p \in Procs :
    \/ \E template \in Templates : CallHire(p, template)
    \/ \E id \in AgentIDs : CallRetire(p, id)
    \/ AgentLock(p)
    \/ HireAgent(p)
    \/ RetireAgent(p)
AgentSpec == AgentInit /\ [][AgentNext]_vars

\* the call of p returns in this step
CallReturns(p) == call[p].pc = "locked" /\ call'[p].pc = "idle"
\* C21: the agent counter equals the number of registered agent machines, is
\* never negative and never exceeds the maximum agent count; a hire at the
\* limit fails with the max-agents error, a retire of an unknown id fails,
\* and a call that fails changes neither the agents nor the counter.
C21_AgentsBounded ==
  /\ [](/\ NumAgents = Cardinality(Machines)
        /\ NumAgents >= 0 /\ NumAgents <= MaxAgents)
  /\ [][\A p \in Procs : CallReturns(p) =>
          /\ (call[p].op = "hire" /\ NumAgents >= MaxAgents)
               => call'[p].ret = "ErrMaxAgents"
          /\ (call[p].op = "retire" /\ call[p].id \notin Machines)
               => call'[p].ret = "not found"
          /\ call'[p].ret # "nil" => UNCHANGED <<Machines, NumAgents>>]_vars
\* an agent was hired up to the limit and a further hire was refused
C21_Witness ==
  /\ NumAgents = MaxAgents
  /\ \E p \in Procs : call[p].pc = "idle" /\ call[p].ret = "ErrMaxAgents"

(***************************************************************************)
(* resolveGuard on its own.  The expression library is modelled by the     *)
(* texts below: which of them compile as a boolean expression, and what a  *)
(* compiled one evaluates to over the context {"flag": ...}.               *)
(***************************************************************************)
\* "ctx.flag" reads the flag; "ctx.flag.x" fetches a field of it, which
\* fails on a boolean and on nil; "isSet" is an identifier the environment
\* does not define, nil at run time; "is set" and "flag is" do not parse
GuardTexts == {"", "ctx.flag", "ctx.flag.x", "isSet", "is set", "flag is"}
\* the context: the flag is true, false, or not there
CtxFlags == {"true", "false", "absent"}
\* expr.Compile(text, expr.AsBool()): err == nil
Compiles(text) == text \in {"ctx.flag", "ctx.flag.x", "isSet"}
\* expr.Run(prog, env): a boolean, another value, or an error
Run(prog, flag) ==
  CASE prog = "ctx.flag" -> IF flag \in {"true", "false"} THEN flag ELSE "nonbool"
    [] prog = "ctx.flag.x" -> "error"
    [] OTHER -> "nonbool"
\* the named-guard tables of a spec (YamlMachineSpec.Guards)
NoGuards == [n \in {} |-> ""]
GuardTables ==
  {NoGuards,
   ("is set" :> "ctx.flag") @@ ("isSet" :> "ctx.flag"),
   ("is set" :> "flag is"),
   ("is set" :> "ctx.flag.x") @@ ("flag is" :> "isSet")}

\* the closures of resolveGuard: what they return for an evaluation outcome
GuardReturn(out) ==
  [guard |-> "func", ok |-> IF out \in {"true", "false"} THEN out = "true" ELSE out = "error",
   err |-> "nil"]
\* a mutant: the named-guard table is looked up before the text is compiled
resolveGuardNamedFirst(guards, name, flag) ==
  IF name = "" THEN [guard |-> "nil", ok |-> TRUE, err |-> "nil"]
  ELSE IF name \in DOMAIN guards /\ Compiles(guards[name])
    THEN GuardReturn(Run(guards[name], flag))
  ELSE IF Compiles(name) THEN GuardReturn(Run(name, flag))
  ELSE GuardReturn("error")
\* resolveGuard(name) and one call of the guard it returns: no guard for "",
\* else the verdict and the error of the closure
resolveGuardFull(guards, name, flag) ==
  IF name = "" THEN [guard |-> "nil", ok |-> TRUE, err |-> "nil"]
  ELSE IF Compiles(name) THEN GuardReturn(Run(name, flag))
  ELSE IF name \notin DOMAIN guards THEN [guard |-> "func", ok |-> TRUE, err |-> "nil"]
  ELSE IF ~Compiles(guards[name]) THEN [guard |-> "func", ok |-> TRUE, err |-> "nil"]
  ELSE GuardReturn(Run(guards[name], flag))

\* the guard of a transition is resolved and evaluated once
EvalGuard ==
  /\ result = <<>>
  /\ result' = <<resolveGuardFull(arg.guards, arg.name, arg.flag)>>
  /\ UNCHANGED <<instanceVars, toolVars, cfgVars, agentVars, arg>>
GuardInit ==
  /\ machine = "trafficlight" /\ InstancesIdle /\ ToolsIdle /\ ConfigIdle /\ AgentsIdle
  /\ arg \in [name : GuardTexts, guards : GuardTables, flag : CtxFlags]
  /\ result = <<>>
GuardSpec == GuardInit /\ [][EvalGuard]_vars

\* the text that gets evaluated: the guard text when it compiles, else the
\* named guard when there is one that compiles, else none
Evaluated(guards, name) ==
  IF Compiles(name) THEN name
  ELSE IF name \in DOMAIN guards /\ Compiles(guards[name]) THEN guards[name]
  ELSE ""
Compilable == {name \in MachineNames : ToAugmentedMachine(name) # {NoAug}}
\* targets as the YAML gives them, split at the dots
Targets ==
  {<<"red">>, <<"child2">>, <<"child1">>, <<"root">>, <<"parent", "child2">>,
   <<"root", "red">>, <<"root", "parent", "child1">>, <<"busy", "deep">>}
TargetArgs ==
  UNION {{[spec |-> name, state |-> p, target |-> t] :
            p \in DOMAIN SpecOf(name).States, t \in Targets} : name \in Compilable}
\* the prefix configureRecursive was called with for the state at path p
ParentPath(s, p) == FullPath(s, SubSeq(p, 1, Len(p) - 1))

\* sb.On(evt, targetFull, guard, action) for one transition
ResolveTarget ==
  /\ result = <<>>
  /\ LET s == SpecOf(arg.spec) IN
     result' = <<targetFull(s, ParentPath(s, arg.state), FullPath(s, arg.state), arg.target)>>
  /\ UNCHANGED <<instanceVars, toolVars, cfgVars, agentVars, arg>>
TargetInit ==
  /\ machine = "trafficlight" /\ InstancesIdle /\ ToolsIdle /\ ConfigIdle /\ AgentsIdle
  /\ arg \in TargetArgs
  /\ result = <<>>
TargetSpec == TargetInit /\ [][ResolveTarget]_vars

\* C29: a target that starts with the root id and a dot is kept; else a
\* target with a dot gets the root id in front; else the target gets the path
\* of the parent of the source state in front unless it equals the path of
\* the source state; so a bare target names a sibling of the source state
\* and every resolved target starts with the root id.
C29_TargetAbsolute ==
  result # <<>> =>
    LET s == SpecOf(arg.spec)
        t == arg.target
        parent == <<s.ID>> \o SubSeq(arg.state, 1, Len(arg.state) - 1)
    IN /\ (Len(t) > 1 /\ t[1] = s.ID) => result[1] = t
       /\ (Len(t) > 1 /\ t[1] # s.ID) => result[1] = <<s.ID>> \o t
       /\ Len(t) = 1 => /\ result[1] = parent \o t
                        /\ SubSeq(result[1], 1, Len(result[1]) - 1) = parent
       /\ result[1][1] = s.ID
\* a bare target on a nested state became a sibling of that state
C29_Witness ==
  /\ result # <<>>
  /\ arg.spec = "nested" /\ arg.state = <<"parent", "child1">>
  /\ arg.target = <<"child2">> /\ result[1] = <<"root", "parent", "child2">>


(***************************************************************************)
(* ToAugmentedMachine step by step: the builder's ids and the four ID maps *)
(* of the AugmentedMachine.                                                *)
(***************************************************************************)
\* the specs given to the compiler
CompileNames == MachineNames \cup {"simple", "timed", "badtimeout", "badnested"}
\* a new MachineBuilder: no key has an id yet
NoBuilder == [ids |-> <<>>, next |-> 1]
\* the builder gives a key its id when the key is first used
Intern(b, key) ==
  IF key \in DOMAIN b.ids THEN b
  ELSE [ids |-> b.ids @@ (key :> b.next), next |-> b.next + 1]
\* b.GetID(key)
GetID(b, key) == Intern(b, key).ids[key]
\* a variant of EventKey: every event under the one key "event:"
EventKeyShared(evt) == <<"event:">>
\* internalKey := "event:" + evt
EventKey(evt) == <<"event:", evt>>

RECURSIVE DeclareOrders(_, _)
RECURSIVE DeclareSeqs(_, _)
\* declareRecursive below p: the orders in which `for id, st := range states`
\* with its recursion into st.States can declare the states
DeclareOrders(s, p) == DeclareSeqs(s, Children(s, p))
DeclareSeqs(s, C) ==
  IF C = {} THEN {<<>>}
  ELSE UNION {{<<FullPath(s, c)>> \o sub \o rest :
                 sub \in DeclareOrders(s, c), rest \in DeclareSeqs(s, C \ {c})} : c \in C}
RECURSIVE InternAll(_, _)
InternAll(b, keys) ==
  IF keys = <<>> THEN b ELSE InternAll(Intern(b, Head(keys)), Tail(keys))

NoMap == <<>>
MaxSubmit == 2
MaxElapsed == 2
\* configureRecursive: the sb.On(evt, targetFull, guard, action) calls
Transitions(s) ==
  UNION {{[from |-> FullPath(s, p), evt |-> e,
           to |-> targetFull(s, ParentPath(s, p), FullPath(s, p),
                             s.States[p].On[e].Target)] :
            e \in DOMAIN s.States[p].On} : p \in DOMAIN s.States}
\* the AugmentedMachine under construction
NewAug(b, s, aug) ==
  [err |-> FALSE, b |-> b, aug |-> aug,
   StatePathByID |-> NoMap, StateIDByPath |-> NoMap,
   EventIDByName |-> NoMap, EventNameByID |-> NoMap,
   states |-> statesSeen(s), events |-> eventsSeen(s),
   On |-> Transitions(s), rt |-> NoRt, elapsed |-> 0]
CompileError == [err |-> TRUE]

\* the check of the initial state, NewMachineBuilder, b.State(root), the
\* declare pass and the configure pass with its sb.On calls
CompileDeclare ==
  /\ arg # <<>> /\ result = <<>>
  /\ LET s == SpecOf(arg.spec) IN
       IF ToAugmentedMachine(arg.spec) = {NoAug}
         THEN result' = CompileError
         ELSE \E order \in DeclareOrders(s, <<>>), aug \in ToAugmentedMachine(arg.spec) :
                result' = NewAug(InternAll(Intern(NoBuilder, <<s.ID>>), order), s, aug)
  /\ UNCHANGED <<instanceVars, toolVars, cfgVars, agentVars, arg>>
\* one round of `for path := range statesSeen`
MapState ==
  /\ result # <<>> /\ ~result.err
  /\ \E path \in result.states :
       LET id == GetID(result.b, path) IN
       result' = [result EXCEPT !.b = Intern(@, path),
                                !.StateIDByPath = (path :> id) @@ @,
                                !.StatePathByID = (id :> path) @@ @,
                                !.states = @ \ {path}]
  /\ UNCHANGED <<instanceVars, toolVars, cfgVars, agentVars, arg>>
\* one round of `for evt := range eventsSeen`
MapEvent ==
  /\ result # <<>> /\ ~result.err /\ result.states = {}
  /\ \E evt \in result.events :
       LET eid == GetID(result.b, EventKey(evt)) IN
       result' = [result EXCEPT !.b = Intern(@, EventKey(evt)),
                                !.EventIDByName = (evt :> eid) @@ @,
                                !.EventNameByID = (eid :> evt) @@ @,
                                !.events = @ \ {evt}]
  /\ UNCHANGED <<instanceVars, toolVars, cfgVars, agentVars, arg>>

\* return aug, nil
Compiled == result # <<>> /\ ~result.err /\ result.states = {} /\ result.events = {}
\* statechartx.NewRuntime(aug.Machine, nil) and rt.Start
StartCompiled ==
  /\ Compiled /\ result.rt = NoRt
  /\ result' = [result EXCEPT !.rt = StartRuntime(result.aug, JNull)]
  /\ UNCHANGED <<instanceVars, toolVars, cfgVars, agentVars, arg>>
\* an event type of EventIDByName is submitted with rt.ProcessEvent
Submit(evt) ==
  /\ Compiled /\ result.rt # NoRt /\ result.rt.n < MaxSubmit
  /\ evt \in DOMAIN result.EventIDByName
  /\ \E reply \in RepliesFor(result.rt, evt) :
       result' = [result EXCEPT !.rt = ProcessEvent(@, evt, reply)]
  /\ UNCHANGED <<instanceVars, toolVars, cfgVars, agentVars, arg>>
\* time passes for a started runtime; the machine holds no timer
Elapse ==
  /\ Compiled /\ result.rt # NoRt /\ result.elapsed < MaxElapsed
  /\ result' = [result EXCEPT !.elapsed = @ + 1]
  /\ UNCHANGED <<instanceVars, toolVars, cfgVars, agentVars, arg>>

CompileInit ==
  /\ machine = "trafficlight" /\ InstancesIdle /\ ToolsIdle /\ ConfigIdle /\ AgentsIdle
  /\ arg \in [spec : CompileNames]
  /\ result = <<>>
CompileNext ==
  \/ CompileDeclare \/ MapState \/ MapEvent
  \/ StartCompiled
  \/ \E evt \in EventTypes(arg.spec) : Submit(evt)
  \/ Elapse
CompileSpec == CompileInit /\ [][CompileNext]_vars
\* f and g are inverse bijections between the domain of f and that of g
Inverse(f, g) ==
  /\ \A x \in DOMAIN f : f[x] \in DOMAIN g /\ g[f[x]] = x
  /\ \A y \in DOMAIN g : g[y] \in DOMAIN f /\ f[g[y]] = y

\* C31: in a compiled machine StateIDByPath and StatePathByID are inverse
\* bijections whose paths are the root and every declared state, and
\* EventIDByName and EventNameByID are inverse bijections whose names are
\* the events of all transitions.
C31_IDMapsInverse ==
  Compiled =>
    LET s == SpecOf(arg.spec) IN
    /\ DOMAIN result.StateIDByPath =
         {<<s.ID>>} \cup {FullPath(s, p) : p \in DOMAIN s.States}
    /\ DOMAIN result.EventIDByName =
         UNION {DOMAIN s.States[p].On : p \in DOMAIN s.States}
    /\ Inverse(result.StateIDByPath, result.StatePathByID)
    /\ Inverse(result.EventIDByName, result.EventNameByID)
    /\ Cardinality(DOMAIN result.StatePathByID) = Cardinality(DOMAIN s.States) + 1
\* the machine with the event timer on three transitions is compiled: one
\* event id, four state ids
C31_Witness ==
  /\ Compiled /\ arg.spec = "simple"
  /\ Cardinality(DOMAIN result.EventNameByID) = 1
  /\ Cardinality(DOMAIN result.StatePathByID) = 4


\* the states of the spec that carry a timeout
TimedStates(s) == {p \in DOMAIN s.States : s.States[p].Timeout # <<>>}
\* the spec without its timeouts
Untimed(s) ==
  [s EXCEPT !.States = [p \in DOMAIN s.States |-> [s.States[p] EXCEPT !.Timeout = <<>>]]]
\* C33: a spec with a state whose timeout does not parse fails to compile; a
\* spec whose timeouts all parse compiles like the spec without them, with no
\* transition and no event for a timeout, and the current state of a running
\* instance changes only when an event is processed, never by time passing.
C33_TimeoutOnlyParsed ==
  /\ [](result # <<>> =>
         LET s == SpecOf(arg.spec) IN
         /\ (\E p \in TimedStates(s) : ~ParseDuration(s.States[p].Timeout)) => result.err
         /\ (/\ <<s.Initial>> \in DOMAIN s.States
             /\ \A p \in TimedStates(s) : ParseDuration(s.States[p].Timeout))
              => /\ ~result.err
                 /\ result.On = Transitions(Untimed(s))
                 /\ \A t \in result.On : t.evt \in eventsSeen(Untimed(s))
                 /\ DOMAIN result.EventIDByName \subseteq eventsSeen(Untimed(s))
                 /\ Compiled => DOMAIN result.EventIDByName = eventsSeen(Untimed(s)))
  /\ [][(/\ result # <<>> /\ ~result.err /\ result.rt # NoRt
         /\ result'.rt.cur # result.rt.cur)
          => /\ result'.rt.n = result.rt.n + 1
             /\ result'.elapsed = result.elapsed]_vars
\* the machine whose state waiting has the timeout 30s runs, time has passed
\* and it is still in waiting
C33_Witness ==
  /\ Compiled /\ arg.spec = "timed" /\ result.rt # NoRt
  /\ result.elapsed = MaxElapsed /\ result.rt.cur = <<"waiting">>


(***************************************************************************)
(* resolveAction: the dispatch on the shape of a transition's action.  A   *)
(* string is a tuple of pieces, so that "hire_agent:simple" is             *)
(* <<"hire_agent:", "simple">>; a value carries its Go dynamic type.       *)
(***************************************************************************)
MapValue(m) == [t |-> "map", v |-> m]
HirePrefix == <<"hire_agent:">>
RetirePrefix == <<"retire_agent:">>
\* the llm_with_tools map of the sandbox e2e test
ToolLoopMap ==
  MapValue([llm_with_tools |->
              MapValue([tools |-> ListValue(<<StrValue(<<"bash_exec">>)>>),
                        prompt |-> StrValue(<<"p">>)])])
\* TestResolveAction "legacy_llm"
LegacyMap ==
  MapValue([type |-> StrValue(<<"llm">>), system |-> StrValue(<<"s">>),
            prompt |-> StrValue(<<"p">>)])
\* TestResolveAction "invalid_nonstring_nonmap"
InvalidMap == MapValue([invalid |-> IntValue(123)])
\* the `actions:` table of a spec: empty, or names for a string, a tool
\* loop, a legacy map, another map and a system action string
NoActions == <<>>
NamedActions ==
  (<<"log">> :> StrValue(<<"log transition">>))
  @@ (<<"myloop">> :> ToolLoopMap)
  @@ (<<"oldloop">> :> LegacyMap)
  @@ (<<"junk">> :> InvalidMap)
  @@ (<<"hire">> :> StrValue(<<"hire_agent:", "simple">>))
ActionTables == {NoActions, NamedActions}
\* the `action:` values of a transition
ActionSpecs ==
  {NilValue, IntValue(5), ToolLoopMap, LegacyMap, InvalidMap,
   StrValue(<<"hire_agent:", "simple">>), StrValue(<<"hire_agent:">>),
   StrValue(<<"retire_agent:", "a1">>), StrValue(<<"x", "hire_agent:">>),
   StrValue(<<"decide">>), StrValue(<<"log">>), StrValue(<<"myloop">>),
   StrValue(<<"oldloop">>), StrValue(<<"junk">>), StrValue(<<"hire">>)}

\* name: the action when it is a string
NameOf(actionSpec) == IF actionSpec.t = "string" THEN actionSpec.v ELSE <<>>
\* a variant of ContentOf without the lookup in s.Actions
ContentDirect(actions, actionSpec) == actionSpec
\* content: the entry of s.Actions a string names, else the action itself
ContentOf(actions, actionSpec) ==
  IF actionSpec.t = "string" /\ actionSpec.v \in DOMAIN actions
    THEN actions[actionSpec.v] ELSE actionSpec
\* the legacy {type: llm} map gets an llm_with_tools entry with no tools
Normalize(m) ==
  IF "type" \in DOMAIN m /\ m["type"] = StrValue(<<"llm">>)
    THEN [k \in DOMAIN m \cup {"llm_with_tools"} |->
            IF k = "llm_with_tools"
              THEN MapValue([tools |-> ListValue(<<>>)]
                            @@ [j \in DOMAIN m \cap {"system", "prompt"} |-> m[j]])
              ELSE m[k]]
    ELSE m
NilAction == [kind |-> "nil", text |-> <<>>, stub |-> FALSE]
\* resolveAction: the closure it returns, by its kind
resolveActionFull(actions, provider, hirer, actionSpec) ==
  LET name == NameOf(actionSpec)
      content == ContentOf(actions, actionSpec)
  IN IF actionSpec.t = "nil" THEN NilAction
     ELSE IF HasPrefix(name, HirePrefix)
       THEN [kind |-> "hire", text |-> TrimPrefix(name, HirePrefix), stub |-> ~hirer]
     ELSE IF HasPrefix(name, RetirePrefix)
       THEN [kind |-> "retire", text |-> TrimPrefix(name, RetirePrefix), stub |-> ~hirer]
     ELSE IF content.t = "map" /\ "llm_with_tools" \in DOMAIN Normalize(content.v)
       THEN [kind |-> "tool_loop", text |-> <<>>, stub |-> FALSE]
     ELSE IF content.t # "string" THEN NilAction
     ELSE IF provider = "" THEN [kind |-> "noop", text |-> content.v, stub |-> FALSE]
     ELSE [kind |-> "simple_llm", text |-> content.v, stub |-> FALSE]

MaxRuns == 2
\* configureRecursive: action := s.resolveAction(hirer, trans.Action)
ResolveAct ==
  /\ arg # <<>> /\ result = <<>>
  /\ result' = [act |-> resolveActionFull(arg.actions, arg.provider, arg.hirer, arg.action),
                runs |-> 0, calls |-> 0, agentCalls |-> 0]
  /\ UNCHANGED <<instanceVars, toolVars, cfgVars, agentVars, arg>>
\* the runtime calls the closure on a taken transition: the simple action
\* makes one LLM call, the loop at least one, a system action calls the hirer
RunAct ==
  /\ result # <<>> /\ result.act.kind # "nil" /\ result.runs < MaxRuns
  /\ result' = [result EXCEPT
       !.runs = @ + 1,
       !.calls = @ + (IF result.act.kind \in {"simple_llm", "tool_loop"} THEN 1 ELSE 0),
       !.agentCalls = @ + (IF result.act.kind \in {"hire", "retire"} /\ ~result.act.stub
                             THEN 1 ELSE 0)]
  /\ UNCHANGED <<instanceVars, toolVars, cfgVars, agentVars, arg>>
ActionInit ==
  /\ machine = "trafficlight" /\ InstancesIdle /\ ToolsIdle /\ ConfigIdle /\ AgentsIdle
  /\ arg \in [action : ActionSpecs, actions : ActionTables,
              provider : {"", "openai"}, hirer : BOOLEAN]
  /\ result = <<>>
ActionNext == ResolveAct \/ RunAct
ActionSpec == ActionInit /\ [][ActionNext]_vars

IsLoopMap(val) ==
  val.t = "map" /\ ("llm_with_tools" \in DOMAIN val.v
                    \/ ("type" \in DOMAIN val.v /\ val.v["type"] = StrValue(<<"llm">>)))
IsSystem(val) ==
  val.t = "string" /\ Len(val.v) > 0 /\ val.v[1] \in {"hire_agent:", "retire_agent:"}
\* the dispatch the claim describes, on the value x
DispatchOn(x) ==
  /\ arg.action.t = "nil" => result.act.kind = "nil"
  /\ IsSystem(arg.action) =>
       /\ result.act.kind = (IF arg.action.v[1] = "hire_agent:" THEN "hire" ELSE "retire")
       /\ result.act.text = Tail(arg.action.v)
  /\ (~IsSystem(arg.action) /\ IsLoopMap(x)) => result.act.kind = "tool_loop"
  /\ (~IsSystem(arg.action) /\ x.t = "string") =>
       /\ result.act.kind = (IF arg.provider = "" THEN "noop" ELSE "simple_llm")
       /\ arg.provider = "" => result.calls = 0
  /\ (x.t \notin {"nil", "string"} /\ ~IsLoopMap(x)) => result.act.kind = "nil"
  /\ result.act.kind = "nil" => result.runs = 0

\* C34: the action of a transition is dispatched on its shape when the
\* machine is compiled: a hire_agent: or retire_agent: string gives a system
\* action, a map with llm_with_tools or the legacy {type: llm} map a tool-use
\* loop, any other string a simple LLM action that makes no LLM call without
\* a provider, nil or any other shape no action.
C34_DispatchOnShape == result # <<>> => DispatchOn(arg.action)
\* C34 amended: a string that is not a system action and names an entry of
\* the spec's actions table is dispatched on the shape of that entry, every
\* other action on its own shape.
C34_DispatchOnContent ==
  /\ [](result # <<>> =>
          DispatchOn(IF arg.action.t = "string" /\ arg.action.v \in DOMAIN arg.actions
                       THEN arg.actions[arg.action.v] ELSE arg.action))
  /\ [][(result # <<>> /\ result' # <<>>) => result'.act = result.act]_vars
\* the string myloop names a tool-use loop in the actions table and the
\* closure has run
C34_Witness ==
  /\ result # <<>> /\ arg.action = StrValue(<<"myloop">>) /\ arg.actions = NamedActions
  /\ result.act.kind = "tool_loop" /\ result.runs = MaxRuns


(***************************************************************************)
(* The machine registry and the machine cache of the API: the watcher      *)
(* deactivates the item of a removed file, getAugmentedMachine answers     *)
(* from augCache before it lists the registry.                             *)
(***************************************************************************)
MaxCreates == 3
\* Registry.List as getAugmentedMachine filters it: the machines of an item
\* that is a statechart, active and compiled
Listed(name, active) ==
  IF active THEN ToAugmentedMachine(name) \ {NoAug} ELSE {}
\* getAugmentedMachine: the cached machine, else a listed one, which is
\* stored in the cache, else the error (NoAug)
getAugmentedMachine(cache, name, active) ==
  IF cache # NoAug THEN {[aug |-> cache, cache |-> cache]}
  ELSE IF Listed(name, active) # {}
    THEN {[aug |-> aug, cache |-> aug] : aug \in Listed(name, active)}
    ELSE {[aug |-> NoAug, cache |-> cache]}
\* createInstance up to its answer to a failed lookup; the log keeps the
\* answer and whether the machine's item was active
CreateRequest ==
  /\ Len(result.log) < MaxCreates
  /\ \E g \in getAugmentedMachine(result.cache, arg.spec, result.active) :
       result' = [result EXCEPT
         !.cache = g.cache,
         !.log = Append(@, [code |-> IF g.aug = NoAug THEN "not found" ELSE "ok",
                            active |-> result.active])]
  /\ UNCHANGED <<instanceVars, toolVars, cfgVars, agentVars, arg>>
\* Registry.watch on a Remove or Rename event of the machine's file
RemoveFile ==
  /\ result.active
  /\ result' = [result EXCEPT !.active = FALSE]
  /\ UNCHANGED <<instanceVars, toolVars, cfgVars, agentVars, arg>>
\* Registry.watch on a Create or Write event of the machine's file
ImportFile ==
  /\ ~result.active
  /\ result' = [result EXCEPT !.active = TRUE]
  /\ UNCHANGED <<instanceVars, toolVars, cfgVars, agentVars, arg>>
RegistryInit ==
  /\ machine = "trafficlight" /\ InstancesIdle /\ ToolsIdle /\ ConfigIdle /\ AgentsIdle
  /\ arg \in [spec : MachineNames]
  /\ result = [active |-> TRUE, cache |-> NoAug, log |-> <<>>]
RegistryNext == CreateRequest \/ RemoveFile \/ ImportFile
RegistrySpec == RegistryInit /\ [][RegistryNext]_vars

\* C39: a create request succeeds only for a machine whose registry item is
\* active and compiles: after the machine's file was removed a create for it
\* is answered not found, also when the machine was looked up before.
C39_CreateNeedsActiveMachine ==
  \A i \in 1..Len(result.log) :
    result.log[i].code = "ok" =>
      result.log[i].active /\ ToAugmentedMachine(arg.spec) # {NoAug}

====
